---------------------------- MODULE Spec2Model ----------------------------
(***************************************************************************)
(* A model of the UK sanctions list pipeline: the incremental ledger       *)
(* files (utils/file_operations.py FileManager and llm_extractor.py        *)
(* LLMExtractor), the text segmenter (utils/text_parser.py) and the record *)
(* normalizer (utils/neo4j_data_processor.py).                             *)
(***************************************************************************)
EXTENDS Integers, Sequences, FiniteSets, TLC

(***************************************************************************)
(* Bounds of the model.                                                    *)
(***************************************************************************)
\* Distinct records a caller hands to FileManager.save_*_record.
MaxRec == 2
\* FileManager appends are explored while a ledger holds fewer records.
MaxLedger == 2
\* Record chunks of one text, individuals and entities together.
MaxChunks == 3
\* Records the LLM returns for one chunk, at most.
MaxPerChunk == 1
\* Tokens of a document handed to the text segmenter, at most.
MaxDocLen == 6
\* Aliases of a record handed to the normalizer, at most.
MaxAliases == 2
\* The greatest day and month numbers of the date strings handed to normalize_date.
MaxDayNumber == 32
MaxMonthNumber == 13
\* Characters of an alias handed to normalize_alias, at most.
MaxAliasLen == 5
\* Comma-separated components of a location string, at most.
MaxLocationParts == 3

\* The most records a ledger handed to the loader holds.
MaxBatch == 2

\* The longest scalar string built from ScalarChars.
MaxScalarLen == 4

(***************************************************************************)
(* The ledger files on disk.  A file is absent, holds a JSON array of      *)
(* records, or holds text json.load rejects (truncated or partly written). *)
(***************************************************************************)
Classes == {"individuals", "entities"}

Other(c) == IF c = "individuals" THEN "entities" ELSE "individuals"

Absent == [state |-> "absent", data |-> <<>>]

EmptyLedger == [state |-> "array", data |-> <<>>]

Corrupt == [state |-> "corrupt", data |-> <<>>]

\* What the environment does to one append: nothing, or a failure while the
\* file is read, while it is opened for writing, or while json.dump writes.
IoOutcomes == {"ok", "read_error", "open_error", "dump_error"}

VARIABLES
    disk,        \* [Classes -> file]: the two ledger files of the output directory
    fm,          \* the FileManager instance: its paths and files_initialized
    last,        \* the operation that acted last, for stating its postcondition
    pre,         \* the ledger files as they were before that operation
    sinceReset,  \* FileManager: records appended per class since initialize(reset) was last called
    resetSeen,   \* FileManager: initialize(reset) was called and only successful saves came after
    ex,          \* the LLMExtractor instance: its paths and counters
    run,         \* the extract_all call in progress: its position and local variables
    outcomes,    \* per class, how each chunk of the run ended and how many records it returned
    report,      \* per class, the metrics extract_individuals / extract_entities reported
    txt,         \* the text segmenter: the function called, its document and what it returned
    norm,        \* the normalizer: the function called, its record and what it returned
    call,        \* a call of one of the normalizer's string functions: its argument and result
    again,       \* a second call of the normalizer in the same run: its record and what it returned
    ld,          \* the Neo4jSanctionsLoader: the ledger it reads, its position, counters and graph writes
    db,          \* a load_all_data call: its position, the ledgers, and the node classes with nodes of an earlier run
    mn           \* a run of main: its stages, the files of the output directory, its issues and exit code

vars == <<disk, fm, last, pre, sinceReset, resetSeen, ex, run, outcomes, report, txt, norm, call, again, ld, db, mn>>

fmVars == <<fm, sinceReset, resetSeen>>

exVars == <<ex, run, outcomes, report>>

\* The ledgers and the objects that write them.
ledgerVars == <<disk, last, pre, fmVars, exVars>>

\* The state of the pure functions, which no ledger operation touches.
pureVars == <<txt, norm, call, again, ld, db, mn>>

NoOp == [op |-> "none", cls |-> "none", append_mode |-> FALSE, raised |-> FALSE]

(***************************************************************************)
(* FileManager (utils/file_operations.py)                                  *)
(***************************************************************************)
\* FileManager.__init__: no path is set and nothing is initialized.
FileManagerInit ==
    [individuals_output_path |-> FALSE,
     entities_output_path |-> FALSE,
     files_initialized |-> FALSE]

PathSet_AlwaysSet(m, c) == TRUE

PathSet(m, c) ==
    IF c = "individuals" THEN m.individuals_output_path ELSE m.entities_output_path

\* initialize_output_files, the early return: an instance that is already
\* initialized skips a reset-mode call.
InitSkipped(m, append_mode) == m.files_initialized /\ ~append_mode

InitFile_AlwaysTruncate(append_mode, file) == EmptyLedger

\* initialize_output_files, one ledger file: resume mode creates it only when
\* it does not exist, reset mode writes [] over it.
InitFile(append_mode, file) ==
    IF append_mode
    THEN IF file.state = "absent" THEN EmptyLedger ELSE file
    ELSE EmptyLedger

initialize_output_files(append_mode) ==
    /\ pre' = disk
    /\ UNCHANGED <<exVars, pureVars>>
    /\ last' = [NoOp EXCEPT !.op = "initialize_output_files", !.append_mode = append_mode]
    /\ IF InitSkipped(fm, append_mode)
       THEN UNCHANGED <<disk, fm>>
       ELSE /\ disk' = [c \in Classes |-> InitFile(append_mode, disk[c])]
            /\ fm' = [individuals_output_path |-> TRUE,
                      entities_output_path |-> TRUE,
                      files_initialized |-> TRUE]
    /\ IF append_mode
       THEN /\ resetSeen' = FALSE
            /\ UNCHANGED sinceReset
       ELSE /\ resetSeen' = TRUE
            /\ sinceReset' = [c \in Classes |-> <<>>]

\* get_existing_record_counts: a class counts 0 when its path is not set, the
\* file is missing, or the file does not load as a list.
get_existing_record_counts(m, d) ==
    [c \in Classes |->
        IF PathSet(m, c) /\ d[c].state # "absent"
        THEN IF d[c].state = "array" THEN Len(d[c].data) ELSE 0
        ELSE 0]

append_to_json_file_Overwrite(file, new_record, io) ==
    IF file.state # "array" \/ io # "ok"
    THEN [file |-> file, raised |-> TRUE]
    ELSE [file |-> [state |-> "array", data |-> <<new_record>>], raised |-> FALSE]

\* append_to_json_file: read the array, append, open for writing (which
\* truncates), dump.  Any exception is logged and raised again.
append_to_json_file(file, new_record, io) ==
    IF file.state # "array" \/ io = "read_error"
    THEN [file |-> file, raised |-> TRUE]
    ELSE IF io = "open_error"
    THEN [file |-> file, raised |-> TRUE]
    ELSE IF io = "dump_error"
    THEN [file |-> Corrupt, raised |-> TRUE]
    ELSE [file |-> [state |-> "array", data |-> Append(file.data, new_record)],
          raised |-> FALSE]

\* save_individual_record / save_entity_record: a no-op while the path is None.
SaveRecord(c, record, io) ==
    LET r == append_to_json_file(disk[c], record, io) IN
    /\ Len(disk[c].data) < MaxLedger
    /\ pre' = disk
    /\ UNCHANGED <<fm, exVars, pureVars>>
    /\ IF PathSet(fm, c)
       THEN /\ disk' = [disk EXCEPT ![c] = r.file]
            /\ last' = [NoOp EXCEPT !.op = "save_record", !.cls = c, !.raised = r.raised]
            /\ resetSeen' = (resetSeen /\ ~r.raised)
            /\ sinceReset' = IF r.raised THEN sinceReset
                             ELSE [sinceReset EXCEPT ![c] = Append(@, record)]
       ELSE /\ UNCHANGED <<disk, sinceReset>>
            /\ last' = [NoOp EXCEPT !.op = "save_skipped", !.cls = c]
            /\ resetSeen' = FALSE

save_individual_record(record, io) == SaveRecord("individuals", record, io)

save_entity_record(record, io) == SaveRecord("entities", record, io)

\* A new process constructs a new FileManager over the same output directory.
NewFileManager ==
    /\ fm' = FileManagerInit
    /\ pre' = disk
    /\ last' = [NoOp EXCEPT !.op = "new"]
    /\ resetSeen' = FALSE
    /\ UNCHANGED <<disk, sinceReset, exVars, pureVars>>

(***************************************************************************)
(* LLMExtractor (llm_extractor.py)                                         *)
(***************************************************************************)
\* LLMExtractor.__init__: counters at zero, no output path.
LLMExtractorInit ==
    [individuals_output_path |-> FALSE,
     entities_output_path |-> FALSE,
     api_calls_made |-> 0,
     extraction_errors |-> 0]

Idle ==
    [pc |-> "idle", individual_texts |-> 0, entity_texts |-> 0, i |-> 0,
     all_individuals |-> <<>>, successful_extractions |-> 0,
     all_entities |-> <<>>, entity_successful_extractions |-> 0]

NoOutcomes == [c \in Classes |-> <<>>]

NoReport == [reported |-> FALSE, processed |-> 0, successful |-> 0, failed |-> 0]

\* The records result.individuals / result.entities holds for chunk i when the
\* LLM returns n of them.
ChunkRecords(i, n) == [j \in 1..n |-> 10 * i + j]

\* _initialize_output_files: json.dump([], f) into both ledger files, whichever
\* class is about to be extracted.
_initialize_output_files(c, d) == [k \in Classes |-> EmptyLedger]

RECURSIVE AppendAll(_, _, _, _, _)
\* "for individual in result.individuals: self._append_to_json_file(...)":
\* the appends in order, stopping at the first that raises.  The failAt-th
\* append meets the environment's outcome io, the others none.
AppendAll(file, records, j, failAt, io) ==
    IF j > Len(records)
    THEN [file |-> file, raised |-> FALSE]
    ELSE LET r == append_to_json_file(file, records[j], IF j = failAt THEN io ELSE "ok") IN
         IF r.raised THEN r ELSE AppendAll(r.file, records, j + 1, failAt, io)

Texts(c) == IF c = "individuals" THEN run.individual_texts ELSE run.entity_texts

LoopOf(c) == IF c = "individuals" THEN "extract_individuals" ELSE "extract_entities"

\* extract_individuals / extract_entities up to the loop: no chunk returns an
\* empty list at once; otherwise the output files are initialized.
BeginExtract(c, r, e, after) ==
    IF (IF c = "individuals" THEN r.individual_texts ELSE r.entity_texts) = 0
    THEN /\ run' = [r EXCEPT !.pc = after]
         /\ ex' = e
         /\ disk' = disk
         /\ last' = [NoOp EXCEPT !.op = "extract_empty", !.cls = c]
    ELSE /\ run' = [r EXCEPT !.pc = LoopOf(c), !.i = 1]
         /\ ex' = [e EXCEPT !.individuals_output_path = TRUE, !.entities_output_path = TRUE]
         /\ disk' = _initialize_output_files(c, disk)
         /\ last' = [NoOp EXCEPT !.op = "extract_begin", !.cls = c]

\* process_sanctions_with_llm: a new LLMExtractor, extract_all, and in it
\* extract_individuals up to its loop.
process_sanctions_with_llm(nIndividuals, nEntities) ==
    /\ run.pc \in {"idle", "done"}
    /\ pre' = disk
    /\ outcomes' = NoOutcomes
    /\ report' = [c \in Classes |-> NoReport]
    /\ UNCHANGED <<fmVars, pureVars>>
    /\ BeginExtract("individuals",
                    [Idle EXCEPT !.individual_texts = nIndividuals, !.entity_texts = nEntities],
                    LLMExtractorInit, "extract_individuals_returned")

\* One pass of the loop of extract_individuals / extract_entities: the LLM call
\* raises, or returns n records that are appended to the class's ledger one by
\* one; any exception counts an extraction error and the loop continues.
ExtractChunk(c, llm, n, failAt, io) ==
    LET records == ChunkRecords(run.i, n)
        r == AppendAll(disk[c], records, 1, failAt, io)
    IN
    /\ run.pc = LoopOf(c)
    /\ run.i <= Texts(c)
    /\ pre' = disk
    /\ UNCHANGED <<fmVars, report, pureVars>>
    /\ IF llm = "raise"
       THEN /\ ex' = [ex EXCEPT !.extraction_errors = @ + 1]
            /\ run' = [run EXCEPT !.i = @ + 1]
            /\ disk' = disk
            /\ outcomes' = [outcomes EXCEPT ![c] = Append(@, [status |-> "llm_raised", n |-> 0])]
            /\ last' = [NoOp EXCEPT !.op = "extract_chunk", !.cls = c, !.raised = TRUE]
       ELSE /\ ex' = [ex EXCEPT !.api_calls_made = @ + 1,
                                !.extraction_errors = IF r.raised THEN @ + 1 ELSE @]
            /\ run' = IF c = "individuals"
                      THEN [run EXCEPT !.i = @ + 1,
                                       !.all_individuals = @ \o records,
                                       !.successful_extractions = @ + 1]
                      ELSE [run EXCEPT !.i = @ + 1,
                                       !.all_entities = @ \o records,
                                       !.entity_successful_extractions = @ + 1]
            /\ disk' = [disk EXCEPT ![c] = r.file]
            /\ outcomes' = [outcomes EXCEPT ![c] =
                               Append(@, [status |-> IF r.raised THEN "io_raised" ELSE "ok",
                                          n |-> n])]
            /\ last' = [NoOp EXCEPT !.op = "extract_chunk", !.cls = c, !.raised = r.raised]

\* The metrics extract_individuals reports once its loop is over; it returns
\* to extract_all.
FinishIndividuals ==
    /\ run.pc = "extract_individuals"
    /\ run.i > run.individual_texts
    /\ pre' = disk
    /\ report' = [report EXCEPT !["individuals"] =
                     [reported |-> TRUE,
                      processed |-> run.individual_texts,
                      successful |-> run.successful_extractions,
                      failed |-> ex.extraction_errors]]
    /\ run' = [run EXCEPT !.pc = "extract_individuals_returned"]
    /\ last' = [NoOp EXCEPT !.op = "extract_finish", !.cls = "individuals"]
    /\ UNCHANGED <<disk, fmVars, ex, outcomes, pureVars>>

\* extract_all calls extract_entities, which runs up to its loop.
BeginEntities ==
    /\ run.pc = "extract_individuals_returned"
    /\ pre' = disk
    /\ UNCHANGED <<fmVars, outcomes, report, pureVars>>
    /\ BeginExtract("entities", run, ex, "done")

\* The metrics extract_entities reports once its loop is over; extract_all
\* returns.
FinishEntities ==
    /\ run.pc = "extract_entities"
    /\ run.i > run.entity_texts
    /\ pre' = disk
    /\ report' = [report EXCEPT !["entities"] =
                     [reported |-> TRUE,
                      processed |-> run.entity_texts,
                      successful |-> run.entity_successful_extractions,
                      failed |-> run.entity_texts - run.entity_successful_extractions]]
    /\ run' = [run EXCEPT !.pc = "done"]
    /\ last' = [NoOp EXCEPT !.op = "extract_finish", !.cls = "entities"]
    /\ UNCHANGED <<disk, fmVars, ex, outcomes, pureVars>>

(***************************************************************************)
(* The text segmenter (utils/text_parser.py).  A document is a sequence of *)
(* tokens: the two section labels (in any letter case), a newline, a       *)
(* blank, a run of other text, and the numbered anchor of either class     *)
(* ("<integer>. Name 6:" and "<integer>. Organisation Name:").             *)
(***************************************************************************)
NL == "\n"

SP == " "

Header(c) == IF c = "individuals" THEN "INDIVIDUALS" ELSE "ENTITIES"

Anchor(c) == IF c = "individuals" THEN "1. Name 6:" ELSE "1. Organisation Name:"

\* The tokens of the documents handed to the splitter of class c.
Tokens(c) == {"INDIVIDUALS", "ENTITIES", NL, SP, "x", Anchor(c)}

Docs(c) == UNION {[1..n -> Tokens(c)] : n \in 0..MaxDocLen}

\* \s of the regular expressions, and the characters str.strip() removes.
IsSpace(t) == t \in {NL, SP, "\t", "\r"}

MinOf(S) == CHOOSE k \in S : \A j \in S : k <= j

MaxOf(S) == CHOOSE k \in S : \A j \in S : j <= k

\* Where the match of "<label>\s*\n" that starts at position p ends, 0 when
\* there is none: \s* takes the whole run of whitespace after the label and
\* gives back up to the last newline of that run.
HeaderEnd(label, text, p) ==
    IF text[p] # label THEN 0
    ELSE LET spaces == {q \in p..Len(text) : \A k \in (p + 1)..q : IsSpace(text[k])}
             newlines == {k \in (p + 1)..MaxOf(spaces) : text[k] = NL}
         IN  IF newlines = {} THEN 0 ELSE MaxOf(newlines)

\* A search that reports a match at the start of any text.
re_search_AlwaysFound(label, text) == [found |-> TRUE, start |-> 0, end |-> 0]

\* re.search(r'<label>\s*\n', text, re.IGNORECASE): the leftmost match, with
\* start() and end() as Python counts them (from 0, end exclusive).
re_search(label, text) ==
    LET starts == {p \in 1..Len(text) : HeaderEnd(label, text, p) > 0}
    IN  IF starts = {} THEN [found |-> FALSE, start |-> 0, end |-> 0]
        ELSE [found |-> TRUE, start |-> MinOf(starts) - 1,
              end |-> HeaderEnd(label, text, MinOf(starts))]

\* text[from:] and text[from:to] of Python.
SliceFrom(text, from) == SubSeq(text, from + 1, Len(text))

Slice(text, from, to) == SubSeq(text, from + 1, to)

\* The anchors the pattern (?:^|\n)(<anchor>) matches under re.MULTILINE:
\* those at the start of the text or right after a newline.
AnchorLines(s, anchor) ==
    {k \in 1..Len(s) : s[k] = anchor /\ (k = 1 \/ s[k - 1] = NL)}

RECURSIVE re_split_from(_, _, _)
\* re.split with one capturing group, from position from on: the text before
\* the next match, the captured anchor, and so on; the newline in front of
\* an anchor belongs to the match and is in neither piece.
re_split_from(s, anchor, from) ==
    LET ks == {k \in AnchorLines(s, anchor) : k >= from}
    IN  IF ks = {} THEN <<SubSeq(s, from, Len(s))>>
        ELSE LET k == MinOf(ks)
                 matchStart == IF k > 1 THEN k - 1 ELSE k
             IN  <<SubSeq(s, from, matchStart - 1), <<s[k]>>>>
                     \o re_split_from(s, anchor, k + 1)

re_split(s, anchor) == re_split_from(s, anchor, 1)

\* str.strip()
strip(s) ==
    LET solid == {k \in 1..Len(s) : ~IsSpace(s[k])}
    IN  IF solid = {} THEN <<>> ELSE SubSeq(s, MinOf(solid), MaxOf(solid))

RECURSIVE PairUp(_, _)
\* "for i in range(start_idx, len(splits), 2): if i + 1 < len(splits): ..."
\* with i counted from 1.
PairUp(splits, i) ==
    IF i > Len(splits) THEN <<>>
    ELSE IF i + 1 <= Len(splits)
         THEN <<strip(splits[i] \o splits[i + 1])>> \o PairUp(splits, i + 2)
         ELSE PairUp(splits, i + 2)

\* What both functions do with the text of their section.
SplitSection(section, anchor) ==
    LET splits == re_split(section, anchor)
    IN  IF Len(splits) <= 1 THEN <<>>
        ELSE LET start_idx == IF strip(splits[1]) = <<>> THEN 1 ELSE 0
             IN  PairUp(splits, start_idx + 1)

\* A section that always runs to the end of the document.
individuals_text_ToEnd(text, individuals_start) == SliceFrom(text, individuals_start)

\* The text of the INDIVIDUALS section: from the end of the header to the
\* first ENTITIES header after it, or to the end of the document.
individuals_text(text, individuals_start) ==
    LET rest == SliceFrom(text, individuals_start)
        entities_match == re_search("ENTITIES", rest)
    IN  IF entities_match.found
        THEN Slice(text, individuals_start, individuals_start + entities_match.start)
        ELSE rest

split_individuals_text(text) ==
    LET individuals_match == re_search("INDIVIDUALS", text)
    IN  IF ~individuals_match.found THEN <<>>
        ELSE SplitSection(individuals_text(text, individuals_match.end),
                          Anchor("individuals"))

split_entities_text(text) ==
    LET entities_match == re_search("ENTITIES", text)
    IN  IF ~entities_match.found THEN <<>>
        ELSE SplitSection(SliceFrom(text, entities_match.end), Anchor("entities"))

NoSplit == [cls |-> "none", text |-> <<>>, returned |-> FALSE, chunks |-> <<>>]

\* A call of split_individuals_text / split_entities_text on the document.
CallSplit(c, chunks) ==
    /\ txt.cls = c
    /\ ~txt.returned
    /\ txt' = [txt EXCEPT !.returned = TRUE, !.chunks = chunks]
    /\ UNCHANGED <<ledgerVars, norm, call, again, ld, db, mn>>

Call_split_individuals_text == CallSplit("individuals", split_individuals_text(txt.text))

Call_split_entities_text == CallSplit("entities", split_entities_text(txt.text))

(***************************************************************************)
(* The record normalizer (utils/neo4j_data_processor.py).  A JSON value is *)
(* a tagged record; a Python string is a sequence of characters, so that   *)
(* strip(), lower() and the regular expressions act on its characters.     *)
(***************************************************************************)
JNull == [t |-> "null"]

JStr(s) == [t |-> "str", s |-> s]

JNum(n) == [t |-> "num", n |-> n]

JList(items) == [t |-> "list", items |-> items]

JDict(d) == [t |-> "dict", d |-> d]

EmptyDict == [k \in {} |-> JNull]

\* "if v:" of Python.
Truthy(v) ==
    CASE v.t = "null" -> FALSE
      [] v.t = "str" -> v.s # <<>>
      [] v.t = "num" -> v.n # 0
      [] v.t = "list" -> v.items # <<>>
      [] v.t = "dict" -> DOMAIN v.d # {}

UpperCase == <<"A", "B", "C", "D", "E", "F", "G", "H", "I", "J", "K", "L", "M", "N", "O", "P", "Q", "R", "S", "T", "U", "V", "W", "X", "Y", "Z">>

LowerCase == <<"a", "b", "c", "d", "e", "f", "g", "h", "i", "j", "k", "l", "m", "n", "o", "p", "q", "r", "s", "t", "u", "v", "w", "x", "y", "z">>

\* The letters of normalize_alias's accent_map and their capitals.
AccentedUpper == <<"É", "È", "Ê", "Ë", "Á", "À", "Â", "Ä", "Í", "Ì", "Î", "Ï", "Ó", "Ò", "Ô", "Ö", "Ú", "Ù", "Û", "Ü", "Ñ", "Ç">>

Accented == <<"é", "è", "ê", "ë", "á", "à", "â", "ä", "í", "ì", "î", "ï", "ó", "ò", "ô", "ö", "ú", "ù", "û", "ü", "ñ", "ç">>

Unaccented == <<"e", "e", "e", "e", "a", "a", "a", "a", "i", "i", "i", "i", "o", "o", "o", "o", "u", "u", "u", "u", "n", "c">>

Digits == <<"0", "1", "2", "3", "4", "5", "6", "7", "8", "9">>

\* The first place of ch in seq.
IndexIn(seq, ch) == MinOf({i \in 1..Len(seq) : seq[i] = ch})

Has(seq, ch) == \E i \in 1..Len(seq) : seq[i] = ch

\* str.lower()
lower(s) ==
    [i \in 1..Len(s) |->
        IF Has(UpperCase, s[i]) THEN LowerCase[IndexIn(UpperCase, s[i])]
        ELSE IF Has(AccentedUpper, s[i]) THEN Accented[IndexIn(AccentedUpper, s[i])]
        ELSE s[i]]

\* str.rstrip(chars)
rstrip(s, chars) ==
    LET kept == {k \in 1..Len(s) : s[k] \notin chars}
    IN  IF kept = {} THEN <<>> ELSE SubSeq(s, 1, MaxOf(kept))

RECURSIVE split(_, _)
\* str.split(sep) for a separator of one character.
split(s, sep) ==
    IF ~Has(s, sep) THEN <<s>>
    ELSE <<SubSeq(s, 1, IndexIn(s, sep) - 1)>>
             \o split(SubSeq(s, IndexIn(s, sep) + 1, Len(s)), sep)

empty_patterns ==
    {<<>>,
     <<"n", "u", "l", "l">>,
     <<"n", "/", "a">>,
     <<"n", "a">>,
     <<"n", "o", "n", "e">>,
     <<"u", "n", "d", "e", "f", "i", "n", "e", "d">>}

is_empty_value(value) ==
    IF value.t = "null" THEN TRUE
    ELSE IF value.t = "str" THEN lower(strip(value.s)) \in empty_patterns
    ELSE IF value.t = "list" THEN Len(value.items) = 0
    ELSE IF value.t = "dict" THEN Cardinality(DOMAIN value.d) = 0
    ELSE FALSE

\* The list comprehension of filter_empty_values: the items that are not
\* empty, as they are.
filtered_list(items) == SelectSeq(items, LAMBDA item : ~is_empty_value(item))

RECURSIVE filter_empty_values(_)
\* data is the mapping of a dict; so is the result.
filter_empty_values(data) ==
    LET filtered_nested(key) == filter_empty_values(data[key].d)
        kept == {key \in DOMAIN data :
                    /\ ~is_empty_value(data[key])
                    /\ data[key].t = "dict" => DOMAIN filtered_nested(key) # {}
                    /\ data[key].t = "list" => filtered_list(data[key].items) # <<>>}
    IN  [key \in kept |->
            IF data[key].t = "dict" THEN JDict(filtered_nested(key))
            ELSE IF data[key].t = "list" THEN JList(filtered_list(data[key].items))
            ELSE data[key]]

IsDigit(ch) == Has(Digits, ch)

\* int() of a string of digits.
RECURSIVE int(_)
int(s) == IF s = <<>> THEN 0 ELSE 10 * int(SubSeq(s, 1, Len(s) - 1)) + (IndexIn(Digits, s[Len(s)]) - 1)

\* \d{2}/\d{2}/\d{4} at position i of s.
DmyAt(s, i) ==
    /\ i + 9 <= Len(s)
    /\ \A k \in {0, 1, 3, 4, 6, 7, 8, 9} : IsDigit(s[i + k])
    /\ s[i + 2] = "/" /\ s[i + 5] = "/"

\* "$" matches at the end of the string and before a newline that ends it.
AtEnd(s, i) == i = Len(s) + 1 \/ (i = Len(s) /\ s[i] = NL)

\* A pattern that matches no string.
MatchesDmy_Never(s) == FALSE

\* re.match(r'^\d{2}/\d{2}/\d{4}$', s)
MatchesDmy(s) == DmyAt(s, 1) /\ AtEnd(s, 11)

\* re.match(r'^\d{4}-\d{2}-\d{2}$', s)
MatchesIso(s) ==
    /\ 10 <= Len(s)
    /\ \A k \in {1, 2, 3, 4, 6, 7, 9, 10} : IsDigit(s[k])
    /\ s[5] = "-" /\ s[8] = "-"
    /\ AtEnd(s, 11)

\* str.zfill(2)
zfill2(s) == IF Len(s) >= 2 THEN s ELSE IF Len(s) = 1 THEN <<"0">> \o s ELSE <<"0", "0">>

\* normalize_date of a value: an ISO date string or None.  A value that is not
\* a string is falsy, or its strip() raises inside the try block: None.
normalize_date(date_string) ==
    IF date_string.t # "str" THEN JNull
    ELSE IF date_string.s = <<>> \/ is_empty_value(date_string) THEN JNull
    ELSE LET trimmed == rstrip(strip(date_string.s), {".", ",", ";", ":"})
             dates == {i \in 1..Len(trimmed) : DmyAt(trimmed, i)}
             cleaned == IF Has(trimmed, "(") /\ Has(trimmed, ")") /\ dates # {}
                        THEN SubSeq(trimmed, MinOf(dates), MinOf(dates) + 9)
                        ELSE trimmed
             parts == split(cleaned, "/")
             day == parts[1]
             month == parts[2]
             year == parts[3]
         IN  IF MatchesDmy(cleaned) /\ 1 <= int(day) /\ int(day) <= 31
                                    /\ 1 <= int(month) /\ int(month) <= 12
             THEN JStr(year \o <<"-">> \o zfill2(month) \o <<"-">> \o zfill2(day))
             ELSE IF MatchesIso(cleaned) THEN JStr(cleaned)
             ELSE JNull

RECURSIVE collapse_spaces(_)
\* re.sub(r'\s+', ' ', s)
collapse_spaces(s) ==
    IF s = <<>> THEN <<>>
    ELSE IF IsSpace(s[1])
         THEN LET rest == {k \in 1..Len(s) : ~IsSpace(s[k])}
              IN  <<SP>> \o (IF rest = {} THEN <<>>
                             ELSE collapse_spaces(SubSeq(s, MinOf(rest), Len(s))))
         ELSE <<s[1]>> \o collapse_spaces(Tail(s))

\* re.sub(r'[^a-z0-9\s]', '', s)
remove_special(s) ==
    SelectSeq(s, LAMBDA ch : Has(LowerCase, ch) \/ IsDigit(ch) \/ IsSpace(ch))

\* "for accented, plain in accent_map.items(): normalized.replace(...)"
replace_accents(s) ==
    [i \in 1..Len(s) |->
        IF Has(Accented, s[i]) THEN Unaccented[IndexIn(Accented, s[i])] ELSE s[i]]

\* normalize_alias of a string.
normalize_alias(alias_name) ==
    IF alias_name = <<>> THEN <<>>
    ELSE replace_accents(remove_special(collapse_spaces(strip(lower(alias_name)))))

\* An id made of the prefix alone.
generate_unique_id_PrefixOnly(prefix, uuid) == prefix \o <<"_">>

\* generate_unique_id(prefix) with the value uuid4 returned.
generate_unique_id(prefix, uuid) ==
    IF prefix # <<>> THEN prefix \o <<"_", uuid>> ELSE <<uuid>>

get_valid_countries ==
    {
    [key |-> <<"r", "u", "s", "s", "i", "a">>,
     code |-> <<"R", "U">>, name |-> <<"R", "u", "s", "s", "i", "a">>],
    [key |-> <<"r", "u", "s", "s", "i", "a", "n", " ", "f", "e", "d", "e", "r", "a", "t", "i", "o", "n">>,
     code |-> <<"R", "U">>, name |-> <<"R", "u", "s", "s", "i", "a">>],
    [key |-> <<"r", "u", "s", "s", "i", "a", "n">>,
     code |-> <<"R", "U">>, name |-> <<"R", "u", "s", "s", "i", "a">>],
    [key |-> <<"c", "h", "i", "n", "a">>,
     code |-> <<"C", "N">>, name |-> <<"C", "h", "i", "n", "a">>],
    [key |-> <<"p", "e", "o", "p", "l", "e", "'", "s", " ", "r", "e", "p", "u", "b", "l", "i", "c", " ", "o", "f", " ", "c", "h", "i", "n", "a">>,
     code |-> <<"C", "N">>, name |-> <<"C", "h", "i", "n", "a">>],
    [key |-> <<"c", "h", "i", "n", "e", "s", "e">>,
     code |-> <<"C", "N">>, name |-> <<"C", "h", "i", "n", "a">>],
    [key |-> <<"i", "r", "a", "n">>,
     code |-> <<"I", "R">>, name |-> <<"I", "r", "a", "n">>],
    [key |-> <<"i", "s", "l", "a", "m", "i", "c", " ", "r", "e", "p", "u", "b", "l", "i", "c", " ", "o", "f", " ", "i", "r", "a", "n">>,
     code |-> <<"I", "R">>, name |-> <<"I", "r", "a", "n">>],
    [key |-> <<"i", "r", "a", "n", "i", "a", "n">>,
     code |-> <<"I", "R">>, name |-> <<"I", "r", "a", "n">>],
    [key |-> <<"n", "o", "r", "t", "h", " ", "k", "o", "r", "e", "a">>,
     code |-> <<"K", "P">>, name |-> <<"N", "o", "r", "t", "h", " ", "K", "o", "r", "e", "a">>],
    [key |-> <<"d", "e", "m", "o", "c", "r", "a", "t", "i", "c", " ", "p", "e", "o", "p", "l", "e", "'", "s", " ", "r", "e", "p", "u", "b", "l", "i", "c", " ", "o", "f", " ", "k", "o", "r", "e", "a">>,
     code |-> <<"K", "P">>, name |-> <<"N", "o", "r", "t", "h", " ", "K", "o", "r", "e", "a">>],
    [key |-> <<"d", "p", "r", "k">>,
     code |-> <<"K", "P">>, name |-> <<"N", "o", "r", "t", "h", " ", "K", "o", "r", "e", "a">>],
    [key |-> <<"u", "n", "i", "t", "e", "d", " ", "k", "i", "n", "g", "d", "o", "m">>,
     code |-> <<"G", "B">>, name |-> <<"U", "n", "i", "t", "e", "d", " ", "K", "i", "n", "g", "d", "o", "m">>],
    [key |-> <<"u", "k">>,
     code |-> <<"G", "B">>, name |-> <<"U", "n", "i", "t", "e", "d", " ", "K", "i", "n", "g", "d", "o", "m">>],
    [key |-> <<"g", "r", "e", "a", "t", " ", "b", "r", "i", "t", "a", "i", "n">>,
     code |-> <<"G", "B">>, name |-> <<"U", "n", "i", "t", "e", "d", " ", "K", "i", "n", "g", "d", "o", "m">>],
    [key |-> <<"b", "r", "i", "t", "a", "i", "n">>,
     code |-> <<"G", "B">>, name |-> <<"U", "n", "i", "t", "e", "d", " ", "K", "i", "n", "g", "d", "o", "m">>],
    [key |-> <<"u", "n", "i", "t", "e", "d", " ", "s", "t", "a", "t", "e", "s">>,
     code |-> <<"U", "S">>, name |-> <<"U", "n", "i", "t", "e", "d", " ", "S", "t", "a", "t", "e", "s">>],
    [key |-> <<"u", "n", "i", "t", "e", "d", " ", "s", "t", "a", "t", "e", "s", " ", "o", "f", " ", "a", "m", "e", "r", "i", "c", "a">>,
     code |-> <<"U", "S">>, name |-> <<"U", "n", "i", "t", "e", "d", " ", "S", "t", "a", "t", "e", "s">>],
    [key |-> <<"u", "s", "a">>,
     code |-> <<"U", "S">>, name |-> <<"U", "n", "i", "t", "e", "d", " ", "S", "t", "a", "t", "e", "s">>],
    [key |-> <<"a", "m", "e", "r", "i", "c", "a">>,
     code |-> <<"U", "S">>, name |-> <<"U", "n", "i", "t", "e", "d", " ", "S", "t", "a", "t", "e", "s">>],
    [key |-> <<"u", "k", "r", "a", "i", "n", "e">>,
     code |-> <<"U", "A">>, name |-> <<"U", "k", "r", "a", "i", "n", "e">>],
    [key |-> <<"k", "y", "r", "g", "y", "z", "s", "t", "a", "n">>,
     code |-> <<"K", "G">>, name |-> <<"K", "y", "r", "g", "y", "z", "s", "t", "a", "n">>],
    [key |-> <<"k", "y", "r", "g", "y", "z", " ", "r", "e", "p", "u", "b", "l", "i", "c">>,
     code |-> <<"K", "G">>, name |-> <<"K", "y", "r", "g", "y", "z", "s", "t", "a", "n">>],
    [key |-> <<"k", "a", "z", "a", "k", "h", "s", "t", "a", "n">>,
     code |-> <<"K", "Z">>, name |-> <<"K", "a", "z", "a", "k", "h", "s", "t", "a", "n">>],
    [key |-> <<"r", "e", "p", "u", "b", "l", "i", "c", " ", "o", "f", " ", "k", "a", "z", "a", "k", "h", "s", "t", "a", "n">>,
     code |-> <<"K", "Z">>, name |-> <<"K", "a", "z", "a", "k", "h", "s", "t", "a", "n">>],
    [key |-> <<"b", "e", "l", "a", "r", "u", "s">>,
     code |-> <<"B", "Y">>, name |-> <<"B", "e", "l", "a", "r", "u", "s">>],
    [key |-> <<"r", "e", "p", "u", "b", "l", "i", "c", " ", "o", "f", " ", "b", "e", "l", "a", "r", "u", "s">>,
     code |-> <<"B", "Y">>, name |-> <<"B", "e", "l", "a", "r", "u", "s">>],
    [key |-> <<"s", "y", "r", "i", "a">>,
     code |-> <<"S", "Y">>, name |-> <<"S", "y", "r", "i", "a">>],
    [key |-> <<"s", "y", "r", "i", "a", "n", " ", "a", "r", "a", "b", " ", "r", "e", "p", "u", "b", "l", "i", "c">>,
     code |-> <<"S", "Y">>, name |-> <<"S", "y", "r", "i", "a">>],
    [key |-> <<"m", "y", "a", "n", "m", "a", "r">>,
     code |-> <<"M", "M">>, name |-> <<"M", "y", "a", "n", "m", "a", "r">>],
    [key |-> <<"b", "u", "r", "m", "a">>,
     code |-> <<"M", "M">>, name |-> <<"M", "y", "a", "n", "m", "a", "r">>],
    [key |-> <<"v", "e", "n", "e", "z", "u", "e", "l", "a">>,
     code |-> <<"V", "E">>, name |-> <<"V", "e", "n", "e", "z", "u", "e", "l", "a">>],
    [key |-> <<"b", "o", "l", "i", "v", "i", "a">>,
     code |-> <<"B", "O">>, name |-> <<"B", "o", "l", "i", "v", "i", "a">>],
    [key |-> <<"n", "i", "c", "a", "r", "a", "g", "u", "a">>,
     code |-> <<"N", "I">>, name |-> <<"N", "i", "c", "a", "r", "a", "g", "u", "a">>],
    [key |-> <<"l", "i", "b", "y", "a">>,
     code |-> <<"L", "Y">>, name |-> <<"L", "i", "b", "y", "a">>],
    [key |-> <<"m", "a", "l", "i">>,
     code |-> <<"M", "L">>, name |-> <<"M", "a", "l", "i">>],
    [key |-> <<"z", "i", "m", "b", "a", "b", "w", "e">>,
     code |-> <<"Z", "W">>, name |-> <<"Z", "i", "m", "b", "a", "b", "w", "e">>],
    [key |-> <<"s", "e", "r", "b", "i", "a">>,
     code |-> <<"R", "S">>, name |-> <<"S", "e", "r", "b", "i", "a">>],
    [key |-> <<"t", "u", "r", "k", "e", "y">>,
     code |-> <<"T", "R">>, name |-> <<"T", "u", "r", "k", "e", "y">>],
    [key |-> <<"t", "u", "r", "k", "i", "y", "e">>,
     code |-> <<"T", "R">>, name |-> <<"T", "u", "r", "k", "e", "y">>],
    [key |-> <<"a", "f", "g", "h", "a", "n", "i", "s", "t", "a", "n">>,
     code |-> <<"A", "F">>, name |-> <<"A", "f", "g", "h", "a", "n", "i", "s", "t", "a", "n">>],
    [key |-> <<"l", "e", "b", "a", "n", "o", "n">>,
     code |-> <<"L", "B">>, name |-> <<"L", "e", "b", "a", "n", "o", "n">>],
    [key |-> <<"i", "r", "a", "q">>,
     code |-> <<"I", "Q">>, name |-> <<"I", "r", "a", "q">>],
    [key |-> <<"s", "o", "m", "a", "l", "i", "a">>,
     code |-> <<"S", "O">>, name |-> <<"S", "o", "m", "a", "l", "i", "a">>],
    [key |-> <<"s", "u", "d", "a", "n">>,
     code |-> <<"S", "D">>, name |-> <<"S", "u", "d", "a", "n">>],
    [key |-> <<"y", "e", "m", "e", "n">>,
     code |-> <<"Y", "E">>, name |-> <<"Y", "e", "m", "e", "n">>],
    [key |-> <<"c", "u", "b", "a">>,
     code |-> <<"C", "U">>, name |-> <<"C", "u", "b", "a">>],
    [key |-> <<"m", "o", "l", "d", "o", "v", "a">>,
     code |-> <<"M", "D">>, name |-> <<"M", "o", "l", "d", "o", "v", "a">>],
    [key |-> <<"g", "e", "o", "r", "g", "i", "a">>,
     code |-> <<"G", "E">>, name |-> <<"G", "e", "o", "r", "g", "i", "a">>],
    [key |-> <<"a", "r", "m", "e", "n", "i", "a">>,
     code |-> <<"A", "M">>, name |-> <<"A", "r", "m", "e", "n", "i", "a">>],
    [key |-> <<"a", "z", "e", "r", "b", "a", "i", "j", "a", "n">>,
     code |-> <<"A", "Z">>, name |-> <<"A", "z", "e", "r", "b", "a", "i", "j", "a", "n">>],
    [key |-> <<"u", "z", "b", "e", "k", "i", "s", "t", "a", "n">>,
     code |-> <<"U", "Z">>, name |-> <<"U", "z", "b", "e", "k", "i", "s", "t", "a", "n">>],
    [key |-> <<"t", "a", "j", "i", "k", "i", "s", "t", "a", "n">>,
     code |-> <<"T", "J">>, name |-> <<"T", "a", "j", "i", "k", "i", "s", "t", "a", "n">>],
    [key |-> <<"t", "u", "r", "k", "m", "e", "n", "i", "s", "t", "a", "n">>,
     code |-> <<"T", "M">>, name |-> <<"T", "u", "r", "k", "m", "e", "n", "i", "s", "t", "a", "n">>]
    }

\* The first of the parts, from the left, that is a key.
FirstValid_Leftmost(parts, i) ==
    LET valid == {j \in 1..i : \E e \in get_valid_countries : e.key = parts[j]}
    IN  IF valid = {} THEN <<>>
        ELSE <<(CHOOSE e \in get_valid_countries : e.key = parts[MinOf(valid)]).name>>

RECURSIVE FirstValid(_, _)
\* "for part in reversed(parts): if part in valid_countries: return ..."
\* from part i down; <<>> when no part is a key.
FirstValid(parts, i) ==
    IF i = 0 THEN <<>>
    ELSE IF \E e \in get_valid_countries : e.key = parts[i]
         THEN <<(CHOOSE e \in get_valid_countries : e.key = parts[i]).name>>
         ELSE FirstValid(parts, i - 1)

\* extract_country_from_location of a string: <<name>>, or <<>> for None.
extract_country_from_location(location_string) ==
    IF location_string = <<>> \/ is_empty_value(JStr(location_string)) THEN <<>>
    ELSE LET cleaned == lower(strip(location_string))
             pieces == split(cleaned, ",")
             parts == [i \in 1..Len(pieces) |-> strip(pieces[i])]
             fromParts == IF Has(cleaned, ",") THEN FirstValid(parts, Len(parts)) ELSE <<>>
         IN  IF fromParts # <<>> THEN fromParts
             ELSE IF \E e \in get_valid_countries : e.key = cleaned
                  THEN <<(CHOOSE e \in get_valid_countries : e.key = cleaned).name>>
                  ELSE <<>>

DateFields(c) ==
    IF c = "individuals"
    THEN {"dateOfBirth", "listedOn", "dateDesignated", "lastUpdated",
          "dateTrustServicesSanctionsImposed"}
    ELSE {"listedOn", "dateDesignated", "lastUpdated"}

\* "for date_field in [...]": a date that normalizes replaces the field, one
\* that does not is popped.
NormalizeDates(c, filtered_data) ==
    LET kept == {key \in DOMAIN filtered_data :
                    key \in DateFields(c) => Truthy(normalize_date(filtered_data[key]))}
    IN  [key \in kept |->
            IF key \in DateFields(c) THEN normalize_date(filtered_data[key])
            ELSE filtered_data[key]]

AliasType(c) ==
    IF c = "individuals" THEN <<"U", "N", "K", "N", "O", "W", "N">>
    ELSE <<"T", "R", "A", "D", "E", "N", "A", "M", "E">>

\* "for alias in filtered_data['aliases']": a list gives its items, a string
\* its characters.  (An aliases value that is a mapping is not modelled.)
AliasesIterated(aliases) ==
    CASE aliases.t = "list" -> aliases.items
      [] aliases.t = "str" -> [i \in 1..Len(aliases.s) |-> JStr(<<aliases.s[i]>>)]

\* normalize_alias(alias) raises for a value that is truthy and has no
\* lower(): a number other than 0, a list, a mapping.
AliasRaises(alias) == alias.t # "str" /\ Truthy(alias)

AliasObject(c, alias) ==
    JDict([key \in {"aliasName", "aliasId", "aliasType"} |->
            IF key = "aliasName" THEN alias
            ELSE IF key = "aliasId"
                 THEN JStr(IF alias.t = "str" THEN normalize_alias(alias.s) ELSE <<>>)
                 ELSE JStr(AliasType(c))])

\* The "Process aliases" block: the record with processed_aliases added.
ProcessAliases(c, filtered_data) ==
    IF "aliases" \in DOMAIN filtered_data /\ Truthy(filtered_data["aliases"])
    THEN LET aliases == filtered_data["aliases"]
         IN  IF aliases.t = "num" THEN [raised |-> TRUE, record |-> filtered_data]
             ELSE LET named == filtered_list(AliasesIterated(aliases))
                  IN  IF \E i \in 1..Len(named) : AliasRaises(named[i])
                      THEN [raised |-> TRUE, record |-> filtered_data]
                      ELSE [raised |-> FALSE,
                            record |->
                                [key \in DOMAIN filtered_data \cup {"processed_aliases"} |->
                                    IF key = "processed_aliases"
                                    THEN JList([i \in 1..Len(named) |-> AliasObject(c, named[i])])
                                    ELSE filtered_data[key]]]
    ELSE [raised |-> FALSE, record |-> filtered_data]

\* extract_country_from_location(address_data['country']) raises for a value
\* that is truthy, not empty and has no strip().
CountryRaises(country) == country.t # "str" /\ Truthy(country)

\* The address with its addressId and its country as it was given.
AddressWithId_KeepCountry(address_data, uuid) ==
    [key \in DOMAIN address_data \cup {"addressId"} |->
        IF key = "addressId" THEN JStr(generate_unique_id(<<"a", "d", "d", "r">>, uuid))
        ELSE address_data[key]]

\* The address with its addressId and its country validated.
AddressWithId(address_data, uuid) ==
    LET validated_country ==
            IF "country" \in DOMAIN address_data /\ address_data["country"].t = "str"
            THEN extract_country_from_location(address_data["country"].s)
            ELSE <<>>
        keys == (DOMAIN address_data \cup {"addressId"})
                    \ (IF validated_country = <<>> THEN {"country"} ELSE {})
    IN  [key \in keys |->
            IF key = "addressId" THEN JStr(generate_unique_id(<<"a", "d", "d", "r">>, uuid))
            ELSE IF key = "country" THEN JStr(validated_country[1])
            ELSE address_data[key]]

\* The "Process address" block.
ProcessAddress(filtered_data, uuid) ==
    IF "address" \in DOMAIN filtered_data /\ Truthy(filtered_data["address"])
    THEN IF filtered_data["address"].t # "dict"
         THEN [raised |-> TRUE, record |-> filtered_data, addressed |-> FALSE]
         ELSE LET address_data == filter_empty_values(filtered_data["address"].d)
              IN  IF DOMAIN address_data = {}
                  THEN [raised |-> FALSE, record |-> filtered_data, addressed |-> FALSE]
                  ELSE IF "country" \in DOMAIN address_data
                            /\ CountryRaises(address_data["country"])
                       THEN [raised |-> TRUE, record |-> filtered_data, addressed |-> TRUE]
                       ELSE [raised |-> FALSE,
                             record |-> [filtered_data EXCEPT
                                            !["address"] = JDict(AddressWithId(address_data, uuid))],
                             addressed |-> TRUE]
    ELSE [raised |-> FALSE, record |-> filtered_data, addressed |-> FALSE]

\* process_individual / process_entity on the mapping data, uuid being what
\* uuid4 returns if it is called.
ProcessRecord(c, data, uuid) ==
    LET dated == NormalizeDates(c, filter_empty_values(data))
        aliased == ProcessAliases(c, dated)
        addressed == ProcessAddress(aliased.record, uuid)
    IN  IF aliased.raised THEN [raised |-> TRUE, record |-> EmptyDict, addressed |-> FALSE]
        ELSE IF addressed.raised
             THEN [raised |-> TRUE, record |-> EmptyDict, addressed |-> addressed.addressed]
             ELSE addressed

process_individual(individual_data, uuid) == ProcessRecord("individuals", individual_data, uuid)

process_entity(entity_data, uuid) == ProcessRecord("entities", entity_data, uuid)

\* What uuid4 may return.
UUIDs == {"u1", "u2"}

NoRecord ==
    [cls |-> "none", input |-> EmptyDict, returned |-> FALSE, raised |-> FALSE,
     output |-> EmptyDict, issued |-> {},
     processed_individuals |-> 0, processed_entities |-> 0]

\* A call of process_individual / process_entity on the record.
CallProcess(c, uuid, result) ==
    /\ norm.cls = c
    /\ ~norm.returned
    /\ uuid \notin norm.issued
    /\ norm' = [norm EXCEPT
                  !.returned = TRUE,
                  !.raised = result.raised,
                  !.output = result.record,
                  !.issued = IF result.addressed THEN @ \cup {uuid} ELSE @,
                  !.processed_individuals =
                      IF c = "individuals" /\ ~result.raised THEN @ + 1 ELSE @,
                  !.processed_entities =
                      IF c = "entities" /\ ~result.raised THEN @ + 1 ELSE @]
    /\ UNCHANGED <<ledgerVars, txt, call, again, ld, db, mn>>

Call_process_individual(uuid) ==
    CallProcess("individuals", uuid, process_individual(norm.input, uuid))

Call_process_entity(uuid) ==
    CallProcess("entities", uuid, process_entity(norm.input, uuid))

\* The records handed to the normalizer: a key is missing or has one of a
\* few values.
Missing == [t |-> "missing"]

Mapping(choice) == [key \in {k \in DOMAIN choice : choice[k] # Missing} |-> choice[key]]

SanctionIdInputs == {JStr(<<"C", "Y", "B", "0", "0", "0", "1">>)}

NationalityInputs ==
    {Missing, JStr(<<" ", "N", "/", "A", " ">>),
     JNum(0)}

DateInputs ==
    {Missing, JStr(<<"0", "1", "/", "0", "2", "/", "2", "0", "0", "0">>),
     JStr(<<"3", "1", "/", "1", "3", "/", "2", "0", "0", "0">>),
     JStr(<<" ", "n", "/", "a", " ">>)}

AliasItems ==
    {JStr(<<"-">>),
     JStr(<<"J", "o", "s", "é">>),
     JStr(<<" ", "N", "A", " ">>)}

AliasInputs == {Missing} \cup {JList(items) : items \in UNION {[1..n -> AliasItems] : n \in 0..MaxAliases}}

AddressInputs ==
    {Missing, JNull, JDict(EmptyDict),
     JDict("country" :> JStr(<<"C", "h", "i", "n", "a">>)),
     JDict("country" :> JStr(<<"A", "t", "l", "a", "n", "t", "i", "s">>)),
     JDict("postTown" :> JStr(<<"T", "i", "a", "n", "j", "i", "n">>) @@ "country" :> JStr(<<"T", "i", "a", "n", "j", "i", "n", ",", " ", "C", "h", "i", "n", "a">>)),
     JDict("postTown" :> JStr(<<"n", "/", "a">>) @@ "country" :> JStr(<<" ">>))}

OtherInputs ==
    {Missing,
     JList(<<JDict("a" :> JNull)>>),
     JList(<<JList(<<>>)>>),
     JDict("a" :> JDict("b" :> JStr(<<"n", "o", "n", "e">>))),
     JList(<<JStr(<<"u", "n", "d", "e", "f", "i", "n", "e", "d">>), JStr(<<"x">>)>>)}

RecordInputs ==
    {Mapping([sanctionId |-> s, nationality |-> n, dateOfBirth |-> d, listedOn |-> d,
              aliases |-> a, address |-> ad, otherInformation |-> o]) :
        s \in SanctionIdInputs, n \in NationalityInputs, d \in DateInputs,
        a \in AliasInputs, ad \in AddressInputs, o \in OtherInputs}

(***************************************************************************)
(* Calls of the normalizer's string functions: normalize_date,             *)
(* normalize_alias and extract_country_from_location.                      *)
(***************************************************************************)
\* parts: the components a location string was put together from.
NoCall == [fn |-> "none", arg |-> <<>>, parts |-> <<>>, returned |-> FALSE, result |-> JNull]

\* A call of the function fn on the string call.arg.
CallString(fn, result) ==
    /\ call.fn = fn
    /\ ~call.returned
    /\ call' = [call EXCEPT !.returned = TRUE, !.result = result]
    /\ UNCHANGED <<ledgerVars, txt, norm, again, ld, db, mn>>

Call_normalize_date == CallString("normalize_date", normalize_date(JStr(call.arg)))

\* The date strings handed to normalize_date: every DD/MM/YYYY and every
\* YYYY-MM-DD with a day up to MaxDayNumber, a month up to MaxMonthNumber
\* and one of two years, and strings with blanks, trailing punctuation,
\* parentheses or other text.
Two(n) == <<Digits[(n \div 10) + 1], Digits[(n % 10) + 1]>>

Years == {<<"2", "0", "0", "0">>, <<"1", "9", "6", "1">>}

DmyString(d, m, y) == Two(d) \o <<"/">> \o Two(m) \o <<"/">> \o y

IsoString(y, m, d) == y \o <<"-">> \o Two(m) \o <<"-">> \o Two(d)

OtherDateStrings ==
    {<<" ", "2", "1", "/", "0", "2", "/", "1", "9", "6", "1", ".", " ">>,
     <<"(", "1", ")", " ", "2", "1", "/", "0", "2", "/", "1", "9", "6", "1", ".", " ", "(", "2", ")", " ", "2", "1", "/", "0", "1", "/", "1", "9", "6", "1", ".">>,
     <<"(", "1", ")", " ", "3", "2", "/", "0", "1", "/", "2", "0", "0", "0">>,
     <<"0", "1", "/", "0", "1", "/", "2", "0", "0", "0", "\n", ".">>,
     <<"2", "0", "0", "0", "-", "0", "1", "-", "0", "2", "\n", ";">>,
     <<"1", "/", "2", "/", "2", "0", "0", "0">>,
     <<"c", "i", "r", "c", "a", " ", "1", "9", "6", "1">>,
     <<"(", "d", "o", "b", ")", " ", "2", "0", "0", "0", "-", "0", "1", "-", "0", "2">>,
     <<"2", "1", "/", "0", "2", "/", "1", "9", "6", "1", ";", ",">>,
     <<"2", "0", "0", "0", "-", "1", "-", "2">>}

DateStrings ==
    {DmyString(d, m, y) : d \in 0..MaxDayNumber, m \in 0..MaxMonthNumber, y \in Years}
    \cup {IsoString(y, m, d) : d \in 0..MaxDayNumber, m \in 0..MaxMonthNumber, y \in Years}
    \cup OtherDateStrings

\* A record with the date string s in two of its fields: both are date fields
\* of an individual, lastUpdated alone is one of an entity.
DateRecord(s) ==
    "sanctionId" :> JStr(<<"C", "Y", "B", "0", "0", "0", "1">>)
        @@ "dateOfBirth" :> JStr(s) @@ "lastUpdated" :> JStr(s)

Call_normalize_alias == CallString("normalize_alias", JStr(normalize_alias(call.arg)))

\* The alias strings handed to normalize_alias: every string of at most
\* MaxAliasLen characters out of a small letter, a capital, a digit, a blank,
\* a punctuation mark and an accented letter.
AliasChars == {"a", "B", "7", SP, "-", "é"}

AliasStrings == UNION {[1..n -> AliasChars] : n \in 0..MaxAliasLen}

\* extract_country_from_location returns a name or None.
Call_extract_country_from_location ==
    CallString("extract_country_from_location",
               LET found == extract_country_from_location(call.arg)
               IN  IF found = <<>> THEN JNull ELSE JStr(found[1]))

\* The location strings handed to extract_country_from_location: at most
\* MaxLocationParts components out of a few, joined by commas, and the two
\* locations 'Room 1102, ..., Tianjin, China' and 'Atlantis'.
LocationComponents ==
    {<<"C", "h", "i", "n", "a">>,
     <<" ", "u", "k", " ">>,
     <<"R", "U", "S", "S", "I", "A">>,
     <<"T", "i", "a", "n", "j", "i", "n">>,
     <<>>,
     <<" ", "n", "/", "a">>}

RECURSIVE JoinWithCommas(_)
JoinWithCommas(parts) ==
    IF Len(parts) = 1 THEN parts[1]
    ELSE parts[1] \o <<",">> \o JoinWithCommas(Tail(parts))

LocationParts ==
    UNION {[1..n -> LocationComponents] : n \in 1..MaxLocationParts}
    \cup {<<<<"R", "o", "o", "m", " ", "1", "1", "0", "2">>,
            <<" ", "G", "u", "a", "n", "f", "u", " ", "M", "a", "n", "s", "i", "o", "n">>,
            <<" ", "4", "6", " ", "X", "i", "n", "k", "a", "i", " ", "R", "o", "a", "d">>,
            <<" ", "H", "e", "d", "o", "n", "g", " ", "D", "i", "s", "t", "r", "i", "c", "t">>,
            <<" ", "T", "i", "a", "n", "j", "i", "n">>,
            <<" ", "C", "h", "i", "n", "a">>>>,
          <<<<"A", "t", "l", "a", "n", "t", "i", "s">>>>}

\* Records with field values of the wrong type: a date that is not a
\* string, aliases that are not a list of strings, an address that is not
\* a mapping or whose country is not a string.
MalformedDates ==
    {Missing, JNum(1961), JList(<<JStr(<<"1", "9", "6", "1">>)>>)}

MalformedAliases ==
    {Missing, JNum(7), JStr(<<"a", "b">>), JList(<<JNum(5)>>),
     JList(<<JStr(<<"a">>), JList(<<JStr(<<"b">>)>>)>>)}

MalformedAddresses ==
    {Missing, JStr(<<"L", "o", "n", "d", "o", "n">>), JNum(3),
     JList(<<JStr(<<"L", "o", "n", "d", "o", "n">>)>>),
     JDict("country" :> JNum(44)),
     JDict("country" :> JList(<<JStr(<<"C", "h", "i", "n", "a">>)>>))}

MalformedInputs ==
    {Mapping([sanctionId |-> s, dateOfBirth |-> d, listedOn |-> d, aliases |-> a, address |-> ad]) :
        s \in SanctionIdInputs, d \in MalformedDates, a \in MalformedAliases,
        ad \in MalformedAddresses}

\* Calls of is_empty_value and filter_empty_values on one scalar.
JBool(b) == [t |-> "bool", b |-> b]

Call_is_empty_value == CallString("is_empty_value", JBool(is_empty_value(call.arg)))

\* filter_empty_values on a mapping whose one key has the scalar as value.
Call_filter_empty_values ==
    CallString("filter_empty_values", JDict(filter_empty_values("value" :> call.arg)))

ScalarChars == {"n", "N", "a", "/", "u", "l", SP}

OtherScalarStrings ==
    {<<"n", "o", "n", "e">>,
     <<"N", "o", "n", "e">>,
     <<"u", "n", "d", "e", "f", "i", "n", "e", "d">>,
     <<"U", "N", "D", "E", "F", "I", "N", "E", "D">>,
     <<"n", "i", "l">>,
     <<"n", "u", "l", "l", "s">>,
     <<"u", "n", "k", "n", "o", "w", "n">>}

ScalarInputs ==
    {JNull, JNum(0), JNum(1), JBool(FALSE), JBool(TRUE)}
    \cup {JStr(s) : s \in OtherScalarStrings
                        \cup UNION {[1..n -> ScalarChars] : n \in 0..MaxScalarLen}}

(***************************************************************************)
(* A second call of process_individual / process_entity on the same        *)
(* Neo4jDataProcessor, after the first has returned a record: on a record  *)
(* with the same contents as the first, or on the record the first call    *)
(* returned.                                                               *)
(***************************************************************************)
NoSecond ==
    [of |-> "none", input |-> EmptyDict, returned |-> FALSE, raised |-> FALSE,
     output |-> EmptyDict]

CallProcessAgain(of, data, uuid, result) ==
    /\ norm.returned
    /\ ~norm.raised
    /\ ~again.returned
    /\ uuid \notin norm.issued
    /\ again' = [of |-> of, input |-> data, returned |-> TRUE,
                 raised |-> result.raised, output |-> result.record]
    /\ norm' = [norm EXCEPT
                  !.issued = IF result.addressed THEN @ \cup {uuid} ELSE @,
                  !.processed_individuals =
                      IF norm.cls = "individuals" /\ ~result.raised THEN @ + 1 ELSE @,
                  !.processed_entities =
                      IF norm.cls = "entities" /\ ~result.raised THEN @ + 1 ELSE @]
    /\ UNCHANGED <<ledgerVars, txt, call, ld, db, mn>>

\* The next record of the ledger has the contents of the first.
Call_process_same_contents(uuid) ==
    CallProcessAgain("same contents", norm.input, uuid,
                     ProcessRecord(norm.cls, norm.input, uuid))

\* The normalizer is given the record it has returned.
Call_process_own_output(uuid) ==
    CallProcessAgain("own output", norm.output, uuid,
                     ProcessRecord(norm.cls, norm.output, uuid))

\* The records of the runs with two calls.
SecondCallInputs ==
    {Mapping([sanctionId |-> s, dateOfBirth |-> d, aliases |-> a, address |-> ad,
              otherInformation |-> o]) :
        s \in SanctionIdInputs, d \in DateInputs,
        a \in {x \in AliasInputs : x = Missing \/ Len(x.items) = 1},
        ad \in AddressInputs, o \in OtherInputs}

\* The ledgers and the two objects after construction, in an empty output
\* directory.
(***************************************************************************)
(* Neo4jSanctionsLoader: load_individuals / load_entities read a ledger    *)
(* through the normalizer and write each record to the graph.              *)
(***************************************************************************)
\* dict.get(key): None for a key that is not there.
Get(record, key) == IF key \in DOMAIN record THEN record[key] ELSE JNull

\* The value uuid4 returns in the call for the k-th record of the ledger;
\* the values do not repeat.
uuid4(k) == <<"u1", "u2", "u3", "u4">>[k]

\* The positions of the records the loop appended: those whose processed
\* record is not empty.
Appended(results) ==
    SelectSeq([k \in 1..Len(results) |-> k], LAMBDA k : results[k].record # EmptyDict)

\* The try block of load_individuals_json / load_entities_json, given what
\* process_individual / process_entity does with each record: the list
\* returned is empty when the file cannot be read or any record raises.
\* origin: the position in the ledger each returned record came from.
LoadedList(readable, results) ==
    IF ~readable \/ \E k \in 1..Len(results) : results[k].raised
    THEN [processed |-> <<>>, origin |-> <<>>]
    ELSE [processed |-> [j \in 1..Len(Appended(results)) |->
                            results[Appended(results)[j]].record],
          origin |-> Appended(results)]

load_json(c, readable, ledger) ==
    LoadedList(readable, [k \in 1..Len(ledger) |-> ProcessRecord(c, ledger[k], uuid4(k))])

load_individuals_json(readable, ledger) == load_json("individuals", readable, ledger)

load_entities_json(readable, ledger) == load_json("entities", readable, ledger)

\* The names _load_cypher_queries gives the query files.
QueryOf(c, part) ==
    CASE part = "main" -> IF c = "individuals" THEN "load_individuals" ELSE "load_entities"
      [] part = "aliases" ->
            IF c = "individuals" THEN "load_individuals_aliases" ELSE "load_entities_aliases"
      [] part = "address" ->
            IF c = "individuals" THEN "load_individuals_address" ELSE "load_entities_address"
      [] part = "relationships" -> "load_entities_relationships"

AllQueries ==
    {"load_individuals", "load_individuals_aliases", "load_individuals_address",
     "load_entities", "load_entities_aliases", "load_entities_address",
     "load_entities_relationships"}

\* The writes with the address before the aliases.
PartsOf_AddressFirst(c, record) ==
    <<[part |-> "main", indexed |-> FALSE]>>
    \o (IF Truthy(Get(record, "address"))
        THEN <<[part |-> "address", indexed |-> TRUE]>> ELSE <<>>)
    \o (IF Truthy(Get(record, "processed_aliases"))
        THEN <<[part |-> "aliases", indexed |-> TRUE]>> ELSE <<>>)
    \o (IF c = "entities" /\ (Truthy(Get(record, "subsidiaries"))
                               \/ Truthy(Get(record, "relatedEntities")))
        THEN <<[part |-> "relationships", indexed |-> TRUE]>> ELSE <<>>)

\* The writes _load_individual_record / _load_entity_record come to, in
\* order: the main write always, the others when the record has the data.
\* indexed: the sanctionId is read with record["sanctionId"], not .get().
PartsOf(c, record) ==
    <<[part |-> "main", indexed |-> FALSE]>>
    \o (IF Truthy(Get(record, "processed_aliases"))
        THEN <<[part |-> "aliases", indexed |-> TRUE]>> ELSE <<>>)
    \o (IF Truthy(Get(record, "address"))
        THEN <<[part |-> "address", indexed |-> TRUE]>> ELSE <<>>)
    \o (IF c = "entities" /\ (Truthy(Get(record, "subsidiaries"))
                               \/ Truthy(Get(record, "relatedEntities")))
        THEN <<[part |-> "relationships", indexed |-> TRUE]>> ELSE <<>>)

\* The parameters of one execute_query call, as far as the key goes.
GraphWrite_KeyedByRef(query, record, raised) ==
    [query |-> query, sanctionId |-> Get(record, "ukSanctionsRef"), raised |-> raised]

GraphWrite(query, record, raised) ==
    [query |-> query, sanctionId |-> Get(record, "sanctionId"), raised |-> raised]

\* The body of the try block from the n-th part on. failAt: which
\* execute_query call of the record raises (0: none).
RECURSIVE RunWrites(_, _, _, _, _, _)
RunWrites(c, record, queries, parts, failAt, issued) ==
    IF parts = <<>> THEN [ok |-> TRUE, writes |-> issued]
    ELSE LET p == Head(parts)
             query == QueryOf(c, p.part)
         IN  IF query \notin queries
             THEN RunWrites(c, record, queries, Tail(parts), failAt, issued)
             ELSE IF p.indexed /\ "sanctionId" \notin DOMAIN record
             THEN [ok |-> FALSE, writes |-> issued]
             ELSE IF Len(issued) + 1 = failAt
             THEN [ok |-> FALSE, writes |-> Append(issued, GraphWrite(query, record, TRUE))]
             ELSE RunWrites(c, record, queries, Tail(parts), failAt,
                            Append(issued, GraphWrite(query, record, FALSE)))

\* A record loader that reports success whatever happened.
load_record_AlwaysTrue(c, record, queries, failAt) ==
    [ok |-> TRUE,
     writes |-> RunWrites(c, record, queries, PartsOf(c, record), failAt, <<>>).writes]

\* _load_individual_record / _load_entity_record: True, or False when
\* anything in the try block raised.
load_record(c, record, queries, failAt) ==
    RunWrites(c, record, queries, PartsOf(c, record), failAt, <<>>)

_load_individual_record(individual, queries, failAt) ==
    load_record("individuals", individual, queries, failAt)

_load_entity_record(entity, queries, failAt) ==
    load_record("entities", entity, queries, failAt)

\* The most execute_query calls one record comes to.
WritesPerRecord == 4

NoLoad ==
    [cls |-> "none", readable |-> TRUE, ledger |-> <<>>, queries |-> {}, pc |-> "idle",
     data |-> <<>>, origin |-> <<>>, i |-> 0, loaded_count |-> 0, failed_count |-> 0,
     writes |-> <<>>, counted |-> <<>>, returned |-> 0]

\* Step 1 of load_individuals / load_entities: the ledger is read and
\* normalized.
LoadJson(c, result) ==
    /\ ld.cls = c
    /\ ld.pc = "start"
    /\ ld' = [ld EXCEPT !.pc = "loaded", !.data = result.processed, !.origin = result.origin]
    /\ UNCHANGED <<ledgerVars, txt, norm, call, again, db, mn>>

Call_load_individuals_json ==
    LoadJson("individuals", load_individuals_json(ld.readable, ld.ledger))

Call_load_entities_json ==
    LoadJson("entities", load_entities_json(ld.readable, ld.ledger))

\* "if not individuals_data: return 0".
LoadNothing ==
    /\ ld.pc = "loaded"
    /\ ld.data = <<>>
    /\ ld' = [ld EXCEPT !.pc = "done", !.returned = 0]
    /\ UNCHANGED <<ledgerVars, txt, norm, call, again, db, mn>>

\* Step 2, when there are records: the counters start at 0.
LoadStart ==
    /\ ld.pc = "loaded"
    /\ ld.data # <<>>
    /\ ld' = [ld EXCEPT !.pc = "loop", !.i = 1, !.loaded_count = 0, !.failed_count = 0]
    /\ UNCHANGED <<ledgerVars, txt, norm, call, again, db, mn>>

\* One pass of the loop of step 3. counted: how each record was counted.
LoadRecord(c, result) ==
    /\ ld.cls = c
    /\ ld.pc = "loop"
    /\ ld.i <= Len(ld.data)
    /\ ld' = [ld EXCEPT
                !.i = @ + 1,
                !.loaded_count = IF result.ok THEN @ + 1 ELSE @,
                !.failed_count = IF result.ok THEN @ ELSE @ + 1,
                !.writes = Append(@, result.writes),
                !.counted = Append(@, IF result.ok THEN "loaded" ELSE "failed")]
    /\ UNCHANGED <<ledgerVars, txt, norm, call, again, db, mn>>

Load_individual(failAt) ==
    LoadRecord("individuals", _load_individual_record(ld.data[ld.i], ld.queries, failAt))

Load_entity(failAt) ==
    LoadRecord("entities", _load_entity_record(ld.data[ld.i], ld.queries, failAt))

\* Step 4: the loop is over and loaded_count is returned.
LoadReturn ==
    /\ ld.pc = "loop"
    /\ ld.i > Len(ld.data)
    /\ ld' = [ld EXCEPT !.pc = "done", !.returned = ld.loaded_count]
    /\ UNCHANGED <<ledgerVars, txt, norm, call, again, db, mn>>

\* The ledgers the loader reads: records with and without a sanctionId,
\* aliases, an address and subsidiaries, one whose address is not a
\* mapping, and one with no value at all.
LoadRecordInputs ==
    {Mapping([sanctionId |-> JStr(<<"C", "Y", "B", "0", "0", "0", "1">>),
              aliases |-> JList(<<JStr(<<"J", "o", "s">>)>>),
              address |-> JDict("country" :> JStr(<<"C", "h", "i", "n", "a">>)),
              subsidiaries |-> JList(<<JStr(<<"x">>)>>)]),
     Mapping([sanctionId |-> JStr(<<"C", "Y", "B", "0", "0", "0", "2">>),
              aliases |-> Missing, address |-> Missing, subsidiaries |-> Missing]),
     Mapping([sanctionId |-> JStr(<<"N", "/", "A">>),
              aliases |-> JList(<<JStr(<<"J", "o", "s">>)>>),
              address |-> JDict("country" :> JStr(<<"C", "h", "i", "n", "a">>)),
              subsidiaries |-> Missing]),
     Mapping([sanctionId |-> JStr(<<"C", "Y", "B", "0", "0", "0", "3">>),
              aliases |-> Missing,
              address |-> JStr(<<"L", "o", "n", "d", "o", "n">>),
              subsidiaries |-> Missing]),
     Mapping([sanctionId |-> JNull,
              aliases |-> Missing, address |-> Missing, subsidiaries |-> Missing])}

Ledgers == UNION {[1..n -> LoadRecordInputs] : n \in 0..MaxBatch}

\* What _load_cypher_queries found: every query file, all but the alias
\* queries, all but the main queries, or none.
QuerySets ==
    {AllQueries, AllQueries \ {"load_individuals_aliases", "load_entities_aliases"},
     AllQueries \ {"load_individuals", "load_entities"}, {}}

(***************************************************************************)
(* Neo4jSanctionsLoader.load_all_data: the database is set up, cleared     *)
(* when asked, and the two ledgers are loaded.                             *)
(***************************************************************************)
\* The node classes clear_sanctions_data deletes, in the order of its
\* queries; the fifth query deletes the countries nothing points to.
clear_queries == <<"Person", "Organisation", "Address", "Alias", "Country">>

SanctionsLabels == {"Person", "Organisation", "Address", "Alias"}

\* The classes whose delete query was executed before the failAt-th query
\* raised (0: none raised).
Deleted(failAt) ==
    {clear_queries[n] : n \in {m \in 1..Len(clear_queries) : failAt = 0 \/ m < failAt}}

NoRun ==
    [pc |-> "idle", clear_existing |-> FALSE, old |-> {}, cleared |-> FALSE,
     ledgers |-> [c \in Classes |-> <<>>], queries |-> {},
     individuals_loaded |-> 0, entities_loaded |-> 0]

\* Step 1: setup_database; load_all_data raises RuntimeError when it fails.
setup_database(connected) ==
    /\ db.pc = "start"
    /\ db' = [db EXCEPT !.pc = IF connected THEN "setup" ELSE "raised"]
    /\ UNCHANGED <<ledgerVars, txt, norm, call, again, ld, mn>>

\* Step 2 with clear_existing: clear_existing_data, whose result
\* load_all_data does not look at.
clear_existing_data(failAt) ==
    /\ db.pc = "setup"
    /\ db.clear_existing
    /\ db' = [db EXCEPT !.pc = "load", !.old = @ \ Deleted(failAt), !.cleared = (failAt = 0)]
    /\ UNCHANGED <<ledgerVars, txt, norm, call, again, ld, mn>>

\* Step 2 without clear_existing.
KeepExisting ==
    /\ db.pc = "setup"
    /\ ~db.clear_existing
    /\ db' = [db EXCEPT !.pc = "load"]
    /\ UNCHANGED <<ledgerVars, txt, norm, call, again, ld, mn>>

\* Step 3: load_individuals is entered.
BeginLoadIndividuals ==
    /\ db.pc = "load"
    /\ db' = [db EXCEPT !.pc = "individuals"]
    /\ ld' = [NoLoad EXCEPT !.cls = "individuals", !.ledger = db.ledgers["individuals"],
                            !.queries = db.queries, !.pc = "start"]
    /\ UNCHANGED <<ledgerVars, txt, norm, call, again, mn>>

\* Step 4: load_individuals returned and load_entities is entered.
BeginLoadEntities ==
    /\ db.pc = "individuals"
    /\ ld.pc = "done"
    /\ db' = [db EXCEPT !.pc = "entities", !.individuals_loaded = ld.returned]
    /\ ld' = [NoLoad EXCEPT !.cls = "entities", !.ledger = db.ledgers["entities"],
                            !.queries = db.queries, !.pc = "start"]
    /\ UNCHANGED <<ledgerVars, txt, norm, call, again, mn>>

\* load_entities returned: "return individuals_loaded, entities_loaded".
ReturnAll ==
    /\ db.pc = "entities"
    /\ ld.pc = "done"
    /\ db' = [db EXCEPT !.pc = "done", !.entities_loaded = ld.returned]
    /\ UNCHANGED <<ledgerVars, txt, norm, call, again, ld, mn>>

\* The ledgers of a load_all_data run: none or one record each.
RunLedgers == {ledger \in Ledgers : Len(ledger) <= 1}

\* The node classes that have nodes of an earlier run.
OldNodes == {{}, {"Alias"}, SanctionsLabels}

(***************************************************************************)
(* main (main.py): stage selection, the dependency check and the stages.   *)
(***************************************************************************)
MaxStages == 2

TextFile == "output/Cyber_text.txt"

json_files ==
    {"output/extracted_data.json", "output/individuals_extracted.json",
     "output/entities_extracted.json"}

ledger_files == {"output/individuals_extracted.json", "output/entities_extracted.json"}

valid_stages == {"pdf", "llm", "neo4j", "all"}

\* The comma-separated items of --stages, each as it is after strip().
StageItems == {"pdf", "llm", "neo4j", "all", "ALL", "csv"}

\* stage.strip().lower() on an item.
lower_stage(item) == IF item = "ALL" THEN "all" ELSE item

Items(stages) == {stages[k] : k \in 1..Len(stages)}

\* validate_stages: the string "all" is the three stages; otherwise the
\* lowercased items, and a ValueError when one of them is not a valid stage.
validate_stages(stages_input) ==
    IF stages_input = <<"all">>
    THEN [raised |-> FALSE, stages |-> <<"pdf", "llm", "neo4j">>]
    ELSE LET requested_stages == [k \in 1..Len(stages_input) |-> lower_stage(stages_input[k])]
         IN  IF Items(requested_stages) \ valid_stages # {}
             THEN [raised |-> TRUE, stages |-> <<>>]
             ELSE [raised |-> FALSE, stages |-> requested_stages]

LlmIssue == "LLM stage requires 'output/Cyber_text.txt' (run 'pdf' stage first)"

Neo4jIssue == "Neo4j stage requires extracted JSON data (run 'llm' stage first)"

check_stage_dependencies_PdfProvides(stages, files) ==
    (IF "llm" \in Items(stages) /\ "pdf" \notin Items(stages) /\ TextFile \notin files
     THEN <<LlmIssue>> ELSE <<>>)
    \o (IF "neo4j" \in Items(stages) /\ json_files \cap files = {}
        THEN <<Neo4jIssue>> ELSE <<>>)

\* check_stage_dependencies: the files are looked up before any stage runs.
check_stage_dependencies(stages, files) ==
    (IF "llm" \in Items(stages) /\ TextFile \notin files THEN <<LlmIssue>> ELSE <<>>)
    \o (IF "neo4j" \in Items(stages) /\ json_files \cap files = {}
        THEN <<Neo4jIssue>> ELSE <<>>)

NoMain ==
    [pc |-> "idle", stages_input |-> <<>>, stages |-> <<>>, at_start |-> {}, files |-> {},
     dependency_issues |-> <<>>, ran |-> <<>>, returned |-> FALSE, code |-> 0]

Return(m, code) == [m EXCEPT !.pc = "returned", !.returned = TRUE, !.code = code]

\* main up to the first stage: validate_stages and check_stage_dependencies,
\* each of which can end the run with exit code 1.
main_begin ==
    LET v == validate_stages(mn.stages_input)
        issues == check_stage_dependencies(v.stages, mn.files)
    IN
    /\ mn.pc = "start"
    /\ mn' = IF v.raised
             THEN Return(mn, 1)
             ELSE IF issues # <<>>
             THEN Return([mn EXCEPT !.stages = v.stages, !.dependency_issues = issues], 1)
             ELSE [mn EXCEPT !.stages = v.stages, !.pc = "pdf"]
    /\ UNCHANGED <<ledgerVars, txt, norm, call, again, ld, db>>

\* "if 'pdf' in stages": run_pdf_extraction writes the text file and gives
\* the text, or gives None, on which main returns 1.
run_pdf_extraction(ok) ==
    /\ mn.pc = "pdf"
    /\ mn' = IF "pdf" \notin Items(mn.stages)
             THEN [mn EXCEPT !.pc = "llm"]
             ELSE IF ok
             THEN [mn EXCEPT !.pc = "llm", !.ran = Append(@, "pdf"),
                             !.files = @ \cup {TextFile}]
             ELSE Return([mn EXCEPT !.ran = Append(@, "pdf")], 1)
    /\ UNCHANGED <<ledgerVars, txt, norm, call, again, ld, db>>

\* "if 'llm' in stages": run_llm_extraction reads the text file, writes the
\* two ledgers and then the combined file; an exception raised on the way
\* reaches the handler of main, which returns 1.
run_llm_extraction(outcome) ==
    /\ mn.pc = "llm"
    /\ mn' = IF "llm" \notin Items(mn.stages)
             THEN [mn EXCEPT !.pc = "neo4j"]
             ELSE IF TextFile \notin mn.files \/ outcome = "raised"
             THEN Return([mn EXCEPT !.ran = Append(@, "llm")], 1)
             ELSE IF outcome = "raised_after_ledgers"
             THEN Return([mn EXCEPT !.ran = Append(@, "llm"),
                                    !.files = @ \cup ledger_files], 1)
             ELSE [mn EXCEPT !.pc = "neo4j", !.ran = Append(@, "llm"),
                             !.files = @ \cup json_files]
    /\ UNCHANGED <<ledgerVars, txt, norm, call, again, ld, db>>

\* "if 'neo4j' in stages": run_neo4j_loading, then the summary and exit
\* code 0; an exception of the stage reaches the handler of main.
run_neo4j_loading(ok) ==
    /\ mn.pc = "neo4j"
    /\ mn' = IF "neo4j" \notin Items(mn.stages)
             THEN Return(mn, 0)
             ELSE Return([mn EXCEPT !.ran = Append(@, "neo4j")], IF ok THEN 0 ELSE 1)
    /\ UNCHANGED <<ledgerVars, txt, norm, call, again, ld, db>>

InitPipeline ==
    /\ disk = [c \in Classes |-> Absent]
    /\ fm = FileManagerInit
    /\ last = NoOp
    /\ pre = [c \in Classes |-> Absent]
    /\ sinceReset = [c \in Classes |-> <<>>]
    /\ resetSeen = FALSE
    /\ ex = LLMExtractorInit
    /\ run = Idle
    /\ outcomes = NoOutcomes
    /\ report = [c \in Classes |-> NoReport]

Init ==
    /\ InitPipeline
    /\ txt = NoSplit
    /\ norm = NoRecord
    /\ call = NoCall
    /\ again = NoSecond
    /\ ld = NoLoad
    /\ db = NoRun
    /\ mn = NoMain

Next ==
    \/ \E append_mode \in BOOLEAN : initialize_output_files(append_mode)
    \/ \E record \in 1..MaxRec, io \in IoOutcomes : save_individual_record(record, io)
    \/ \E record \in 1..MaxRec, io \in IoOutcomes : save_entity_record(record, io)
    \/ NewFileManager

Spec == Init /\ [][Next]_vars

\* What one pass of an extraction loop may meet: the LLM raises, or returns n
\* records none of whose appends fails, or the failAt-th append fails with io.
ChunkInputs ==
    {[llm |-> "raise", n |-> 0, failAt |-> 0, io |-> "ok"]}
    \cup {[llm |-> "parsed", n |-> n, failAt |-> 0, io |-> "ok"] : n \in 0..MaxPerChunk}
    \cup {[llm |-> "parsed", n |-> n, failAt |-> f, io |-> io] :
            n \in 1..MaxPerChunk, f \in 1..MaxPerChunk, io \in IoOutcomes \ {"ok"}}

NextExtractOf(inputs) ==
    \/ \E nIndividuals \in 0..MaxChunks, nEntities \in 0..MaxChunks :
          /\ nIndividuals + nEntities <= MaxChunks
          /\ process_sanctions_with_llm(nIndividuals, nEntities)
    \/ \E c \in Classes, x \in inputs :
          /\ x.failAt <= x.n
          /\ ExtractChunk(c, x.llm, x.n, x.failAt, x.io)
    \/ FinishIndividuals
    \/ BeginEntities
    \/ FinishEntities

NextExtract == NextExtractOf(ChunkInputs)

SpecExtract == Init /\ [][NextExtract]_vars

\* The runs in which no ledger read or write fails.
NextExtractNoIoFailure == NextExtractOf({x \in ChunkInputs : x.io = "ok"})

SpecExtractNoIoFailure == Init /\ [][NextExtractNoIoFailure]_vars

\* The segmenter applied to every document of at most MaxDocLen tokens.
InitSplit ==
    /\ InitPipeline
    /\ \E c \in Classes : \E d \in Docs(c) :
          txt = [NoSplit EXCEPT !.cls = c, !.text = d]
    /\ norm = NoRecord
    /\ call = NoCall
    /\ again = NoSecond
    /\ ld = NoLoad
    /\ db = NoRun
    /\ mn = NoMain

NextSplit ==
    \/ Call_split_individuals_text
    \/ Call_split_entities_text

SpecSplit == InitSplit /\ [][NextSplit]_vars

\* The normalizer applied to every record of RecordInputs.
InitNorm ==
    /\ InitPipeline
    /\ txt = NoSplit
    /\ \E c \in Classes, r \in RecordInputs : norm = [NoRecord EXCEPT !.cls = c, !.input = r]
    /\ call = NoCall
    /\ again = NoSecond
    /\ ld = NoLoad
    /\ db = NoRun
    /\ mn = NoMain

NextNorm ==
    \/ \E uuid \in UUIDs : Call_process_individual(uuid)
    \/ \E uuid \in UUIDs : Call_process_entity(uuid)

SpecNorm == InitNorm /\ [][NextNorm]_vars

InitMalformed ==
    /\ InitPipeline
    /\ txt = NoSplit
    /\ \E c \in Classes, r \in MalformedInputs : norm = [NoRecord EXCEPT !.cls = c, !.input = r]
    /\ call = NoCall
    /\ again = NoSecond
    /\ ld = NoLoad
    /\ db = NoRun
    /\ mn = NoMain

SpecMalformed == InitMalformed /\ [][NextNorm]_vars

\* normalize_date applied to every string of DateStrings, and the normalizer
\* to the records that hold it.
InitDate ==
    /\ InitPipeline
    /\ txt = NoSplit
    /\ \E c \in Classes, s \in DateStrings :
          /\ norm = [NoRecord EXCEPT !.cls = c, !.input = DateRecord(s)]
          /\ call = [NoCall EXCEPT !.fn = "normalize_date", !.arg = s]
    /\ again = NoSecond
    /\ ld = NoLoad
    /\ db = NoRun
    /\ mn = NoMain

NextDate ==
    \/ Call_normalize_date
    \/ \E uuid \in UUIDs : Call_process_individual(uuid)
    \/ \E uuid \in UUIDs : Call_process_entity(uuid)

SpecDate == InitDate /\ [][NextDate]_vars

\* normalize_alias applied to every string of AliasStrings.
InitAlias ==
    /\ InitPipeline
    /\ txt = NoSplit
    /\ norm = NoRecord
    /\ \E s \in AliasStrings : call = [NoCall EXCEPT !.fn = "normalize_alias", !.arg = s]
    /\ again = NoSecond
    /\ ld = NoLoad
    /\ db = NoRun
    /\ mn = NoMain

NextAlias == Call_normalize_alias

SpecAlias == InitAlias /\ [][NextAlias]_vars

InitEmpty ==
    /\ InitPipeline
    /\ txt = NoSplit
    /\ norm = NoRecord
    /\ \E fn \in {"is_empty_value", "filter_empty_values"}, v \in ScalarInputs :
          call = [NoCall EXCEPT !.fn = fn, !.arg = v]
    /\ again = NoSecond
    /\ ld = NoLoad
    /\ db = NoRun
    /\ mn = NoMain

NextEmpty == Call_is_empty_value \/ Call_filter_empty_values

SpecEmpty == InitEmpty /\ [][NextEmpty]_vars

\* extract_country_from_location applied to every location of LocationParts.
InitCountry ==
    /\ InitPipeline
    /\ txt = NoSplit
    /\ norm = NoRecord
    /\ \E parts \in LocationParts :
          call = [NoCall EXCEPT !.fn = "extract_country_from_location",
                                !.arg = JoinWithCommas(parts), !.parts = parts]
    /\ again = NoSecond
    /\ ld = NoLoad
    /\ db = NoRun
    /\ mn = NoMain

NextCountry == Call_extract_country_from_location

SpecCountry == InitCountry /\ [][NextCountry]_vars

\* Two calls of the normalizer in one run.
InitAgain ==
    /\ InitPipeline
    /\ txt = NoSplit
    /\ \E c \in Classes, r \in SecondCallInputs : norm = [NoRecord EXCEPT !.cls = c, !.input = r]
    /\ call = NoCall
    /\ again = NoSecond
    /\ ld = NoLoad
    /\ db = NoRun
    /\ mn = NoMain

NextAgain ==
    \/ \E uuid \in UUIDs : Call_process_individual(uuid)
    \/ \E uuid \in UUIDs : Call_process_entity(uuid)
    \/ \E uuid \in UUIDs : Call_process_same_contents(uuid)
    \/ \E uuid \in UUIDs : Call_process_own_output(uuid)

SpecAgain == InitAgain /\ [][NextAgain]_vars

InitLoad ==
    /\ InitPipeline
    /\ txt = NoSplit
    /\ norm = NoRecord
    /\ call = NoCall
    /\ again = NoSecond
    /\ \E c \in Classes, readable \in BOOLEAN, ledger \in Ledgers, queries \in QuerySets :
          /\ readable \/ ledger = <<>>
          /\ ld = [NoLoad EXCEPT !.cls = c, !.readable = readable, !.ledger = ledger,
                                  !.queries = queries, !.pc = "start"]
    /\ db = NoRun
    /\ mn = NoMain

NextLoad ==
    \/ Call_load_individuals_json
    \/ Call_load_entities_json
    \/ LoadNothing
    \/ LoadStart
    \/ \E failAt \in 0..WritesPerRecord : Load_individual(failAt)
    \/ \E failAt \in 0..WritesPerRecord : Load_entity(failAt)
    \/ LoadReturn

SpecLoad == InitLoad /\ [][NextLoad]_vars

InitLoadAll ==
    /\ InitPipeline
    /\ txt = NoSplit
    /\ norm = NoRecord
    /\ call = NoCall
    /\ again = NoSecond
    /\ ld = NoLoad
    /\ \E clear_existing \in BOOLEAN, old \in OldNodes,
          individuals \in RunLedgers, entities \in RunLedgers :
          db = [NoRun EXCEPT !.pc = "start", !.clear_existing = clear_existing, !.old = old,
                             !.ledgers = [c \in Classes |-> IF c = "individuals"
                                                            THEN individuals ELSE entities],
                             !.queries = AllQueries]
    /\ mn = NoMain

NextLoadAll ==
    \/ \E connected \in BOOLEAN : setup_database(connected)
    \/ \E failAt \in 0..Len(clear_queries) : clear_existing_data(failAt)
    \/ KeepExisting
    \/ BeginLoadIndividuals
    \/ BeginLoadEntities
    \/ ReturnAll
    \/ NextLoad

SpecLoadAll == InitLoadAll /\ [][NextLoadAll]_vars

\* main is started with one to MaxStages items in --stages, over an output
\* directory holding any of the text file and the three JSON files.
StageInputs == UNION {[1..n -> StageItems] : n \in 1..MaxStages}

InitMain ==
    /\ InitPipeline
    /\ txt = NoSplit
    /\ norm = NoRecord
    /\ call = NoCall
    /\ again = NoSecond
    /\ ld = NoLoad
    /\ db = NoRun
    /\ \E stages_input \in StageInputs, files \in SUBSET ({TextFile} \cup json_files) :
          mn = [NoMain EXCEPT !.pc = "start", !.stages_input = stages_input,
                              !.at_start = files, !.files = files]

LlmOutcomes == {"ok", "raised", "raised_after_ledgers"}

NextMain ==
    \/ main_begin
    \/ \E ok \in BOOLEAN : run_pdf_extraction(ok)
    \/ \E outcome \in LlmOutcomes : run_llm_extraction(outcome)
    \/ \E ok \in BOOLEAN : run_neo4j_loading(ok)

SpecMain == InitMain /\ [][NextMain]_vars

(***************************************************************************)
(* Claims about FileManager, checked under Spec.                           *)
(***************************************************************************)
LastWasInit(append_mode) ==
    last.op = "initialize_output_files" /\ last.append_mode = append_mode

\* C1: initialize_output_files(append_mode=False) leaves both ledgers empty,
\* whatever they held and whatever state the FileManager was in.
C1_ResetLeavesLedgersEmpty ==
    LastWasInit(FALSE) => \A c \in Classes : disk[c] = EmptyLedger

\* C2: after initialize(reset) followed only by successful saves, each ledger
\* is exactly the sequence of records appended to its class since that reset,
\* in append order, and get_existing_record_counts returns its length.
C2_LedgerIsAppendsSinceReset ==
    resetSeen =>
        \A c \in Classes :
            /\ disk[c] = [state |-> "array", data |-> sinceReset[c]]
            /\ get_existing_record_counts(fm, disk)[c] = Len(sinceReset[c])

\* C3: initialize_output_files(append_mode=True) creates an empty ledger only
\* for a class whose file does not exist; an existing ledger keeps the same
\* records in the same order and get_existing_record_counts reports its
\* unchanged size.
C3_ResumeKeepsExistingLedger ==
    LastWasInit(TRUE) =>
        \A c \in Classes :
            /\ pre[c].state = "absent" => disk[c] = EmptyLedger
            /\ pre[c].state # "absent" => disk[c] = pre[c]
            /\ pre[c].state = "array" =>
                  get_existing_record_counts(fm, disk)[c] = Len(pre[c].data)

C3_Witness ==
    /\ LastWasInit(TRUE)
    /\ pre["individuals"].state = "array" /\ Len(pre["individuals"].data) >= 2
    /\ pre["entities"].state = "array" /\ Len(pre["entities"].data) >= 1

\* C4: an append that fails at any step raises and leaves the ledger holding
\* exactly the records it held before the call.
C4_AppendAllOrNothing ==
    (last.op = "save_record" /\ last.raised) => disk = pre

(***************************************************************************)
(* Claims about LLMExtractor, checked under SpecExtract.                   *)
(***************************************************************************)
Range(seq) == {seq[k] : k \in 1..Len(seq)}

\* The chunks of class c the LLM call raised for, so far in the run.
LlmFailed(c) == {i \in 1..Len(outcomes[c]) : outcomes[c][i].status = "llm_raised"}

\* The records of the chunks of class c that went through the whole loop body
\* without an exception, so far in the run.
CompletedRecords(c) ==
    UNION {Range(ChunkRecords(i, outcomes[c][i].n)) :
             i \in {k \in 1..Len(outcomes[c]) : outcomes[c][k].status = "ok"}}

\* C5: at every point of an extract_all run each class's ledger holds every
\* record of that class whose chunk completed extraction so far.
C5_PartialProgressSurvives ==
    run.pc # "idle" =>
        \A c \in Classes : \A r \in CompletedRecords(c) :
            disk[c].state = "array" /\ r \in Range(disk[c].data)

\* Every chunk of class c so far either met a raising LLM call or returned
\* exactly one record that was appended.
OnlyLlmFailuresOneRecordEach(c) ==
    \A i \in 1..Len(outcomes[c]) :
        \/ outcomes[c][i].status = "llm_raised"
        \/ outcomes[c][i].status = "ok" /\ outcomes[c][i].n = 1

RECURSIVE RecordsOfNonFailing(_, _)
\* The single records of chunks 1..n of class c that did not fail, in chunk order.
RecordsOfNonFailing(c, n) ==
    IF n = 0 THEN <<>>
    ELSE RecordsOfNonFailing(c, n - 1)
         \o (IF n \in LlmFailed(c) THEN <<>> ELSE ChunkRecords(n, 1))

BatchFinished(c) == last.op = "extract_finish" /\ last.cls = c

\* C6: when extract_individuals / extract_entities ends a batch of N chunks in
\* which the LLM call raised for the chunks F and every other chunk gave one
\* record, every chunk was attempted, N - |F| successes and |F| failures are
\* reported, and the ledger is the records of the other chunks in chunk order.
C6_BatchWithLlmFailures ==
    \A c \in Classes :
        (BatchFinished(c) /\ OnlyLlmFailuresOneRecordEach(c)) =>
            /\ Len(outcomes[c]) = Texts(c)
            /\ report[c].processed = Texts(c)
            /\ report[c].successful = Texts(c) - Cardinality(LlmFailed(c))
            /\ report[c].failed = Cardinality(LlmFailed(c))
            /\ disk[c] = [state |-> "array", data |-> RecordsOfNonFailing(c, Texts(c))]

C6_Witness ==
    /\ BatchFinished("individuals")
    /\ OnlyLlmFailuresOneRecordEach("individuals")
    /\ run.individual_texts = 3
    /\ LlmFailed("individuals") = {2}
    /\ disk["individuals"].data = <<11, 31>>

\* The operation that acted last processes records of one class: a FileManager
\* save, or a step of extract_individuals / extract_entities.
ProcessesOneClass ==
    last.op \in {"save_record", "save_skipped",
                 "extract_begin", "extract_empty", "extract_chunk", "extract_finish"}

\* C7: processing or appending records of one class leaves the records of the
\* other class's ledger unchanged.
C7_LedgersIndependent ==
    ProcessesOneClass => disk[Other(last.cls)].data = pre[Other(last.cls)].data

(***************************************************************************)
(* Claims about the text segmenter, checked under SpecSplit.               *)
(***************************************************************************)
\* A section header starts at position p: the label, then whitespace up to
\* and including a newline.
HeaderAt(label, text, p) ==
    /\ text[p] = label
    /\ \E q \in (p + 1)..Len(text) :
          text[q] = NL /\ \A k \in (p + 1)..(q - 1) : IsSpace(text[k])

HasHeader(label, text) == \E p \in 1..Len(text) : HeaderAt(label, text, p)

FirstHeader(label, text) == MinOf({p \in 1..Len(text) : HeaderAt(label, text, p)})

\* An ENTITIES header that follows the header of the section of class c.
EntitiesHeadersAfter(c, text) ==
    {p \in (FirstHeader(Header(c), text) + 1)..Len(text) : HeaderAt("ENTITIES", text, p)}

\* The anchor lines of class c after the section's header.
AnchorsAfterHeader(c, text) ==
    {k \in (FirstHeader(Header(c), text) + 1)..Len(text) :
        text[k] = Anchor(c) /\ text[k - 1] = NL}

\* Those of them in the section body, which for individuals ends at the
\* next ENTITIES header.
AnchorsInSection(c, text) ==
    {k \in AnchorsAfterHeader(c, text) :
        c = "individuals" => \A p \in EntitiesHeadersAfter(c, text) : k < p}

\* One chunk per anchor line, in document order: the anchor and the text up
\* to the next anchor line, trimmed.
ExpectedChunks(c, text) ==
    LET A == AnchorsAfterHeader(c, text)
        nth(i) == CHOOSE k \in A : Cardinality({j \in A : j < k}) = i - 1
        upTo(k) == IF \E j \in A : j > k THEN MinOf({j \in A : j > k}) - 1 ELSE Len(text)
    IN  [i \in 1..Cardinality(A) |-> strip(SubSeq(text, nth(i), upTo(nth(i))))]

\* C8: for a document with the section header, N anchor lines after it and
\* no ENTITIES section following, whatever stands between the header and the
\* first anchor, the splitter returns exactly N chunks, the i-th being the
\* i-th anchor followed by its record's body up to the next anchor.
C8_OneChunkPerAnchor ==
    (/\ txt.returned
     /\ HasHeader(Header(txt.cls), txt.text)
     /\ EntitiesHeadersAfter(txt.cls, txt.text) = {}) =>
        txt.chunks = ExpectedChunks(txt.cls, txt.text)

\* C9: the splitter returns the empty list when the section header is absent
\* from the document and when the header is there but no anchor line is in
\* the section body.
C9_EmptyWithoutHeaderOrAnchors ==
    (/\ txt.returned
     /\ \/ ~HasHeader(Header(txt.cls), txt.text)
        \/ AnchorsInSection(txt.cls, txt.text) = {}) =>
        txt.chunks = <<>>

\* A section with text in it and no anchor line: no single giant chunk.
C9_Witness ==
    /\ txt.returned
    /\ txt.cls = "individuals"
    /\ txt.text = <<"x", NL, "INDIVIDUALS", SP, NL, "x">>
    /\ txt.chunks = <<>>

(***************************************************************************)
(* Claims about the record normalizer, checked under SpecNorm.             *)
(***************************************************************************)
\* A value that may not be stored: null, a string that trimmed and
\* lowercased is '', 'n/a', 'na', 'none' or 'undefined', an empty list, an
\* empty mapping.
EmptyValue(v) ==
    \/ v.t = "null"
    \/ v.t = "str" /\ lower(strip(v.s)) \in empty_patterns \ {<<"n", "u", "l", "l">>}
    \/ v.t = "list" /\ v.items = <<>>
    \/ v.t = "dict" /\ DOMAIN v.d = {}

RECURSIVE NoEmptyValue(_)
\* No key of v maps to such a value, in v itself, in the mappings under its
\* keys and in the mappings and lists inside its lists.
NoEmptyValue(v) ==
    IF v.t = "dict"
    THEN \A key \in DOMAIN v.d : ~EmptyValue(v.d[key]) /\ NoEmptyValue(v.d[key])
    ELSE IF v.t = "list"
         THEN \A i \in 1..Len(v.items) : NoEmptyValue(v.items[i])
         ELSE TRUE

\* C10: in the record process_individual / process_entity returns, no key at
\* any nesting depth (the record, its address, mappings and lists inside
\* lists, the generated alias objects) maps to null, to an empty or
\* null-equivalent string, to an empty list or to an empty mapping.
C10_NoEmptyValueAtAnyDepth ==
    (norm.returned /\ ~norm.raised) => NoEmptyValue(JDict(norm.output))

(***************************************************************************)
(* Claims about normalize_date, checked under SpecDate.                    *)
(***************************************************************************)
InRange(d, m) == d \in 1..31 /\ m \in 1..12

\* C11: for a string DD/MM/YYYY with the day in 1..31 and the month in 1..12
\* normalize_date returns YYYY-MM-DD with the same year, month and day; with
\* the day or the month out of range it returns None, and process_individual
\* / process_entity remove the date field from the record.
C11_DmyBecomesIso ==
    \A d \in 0..MaxDayNumber, m \in 0..MaxMonthNumber, y \in Years :
        /\ (call.fn = "normalize_date" /\ call.returned /\ call.arg = DmyString(d, m, y)) =>
              call.result = IF InRange(d, m) THEN JStr(IsoString(y, m, d)) ELSE JNull
        /\ (norm.returned /\ norm.input = DateRecord(DmyString(d, m, y)) /\ ~InRange(d, m)) =>
              /\ ~norm.raised
              /\ \A field \in DateFields(norm.cls) : field \notin DOMAIN norm.output

\* Day 32 of a month: None, and the individual's two date fields are gone.
C11_Witness ==
    /\ call.returned
    /\ call.arg = DmyString(32, 1, <<"2", "0", "0", "0">>)
    /\ call.result = JNull
    /\ norm.returned
    /\ norm.cls = "individuals"
    /\ DOMAIN norm.output = {"sanctionId"}

\* A string YYYY-MM-DD of digits with the month in 1..12 and the day in 1..31.
ValidIsoDate(v) ==
    /\ v.t = "str"
    /\ Len(v.s) = 10
    /\ \A k \in {1, 2, 3, 4, 6, 7, 9, 10} : IsDigit(v.s[k])
    /\ v.s[5] = "-" /\ v.s[8] = "-"
    /\ InRange(int(SubSeq(v.s, 9, 10)), int(SubSeq(v.s, 6, 7)))

\* C12: in the record process_individual / process_entity returns, every date
\* field of the class that is present is a valid ISO date YYYY-MM-DD with the
\* month in 1..12 and the day in 1..31, whatever the input string was.
C12_DateFieldsAreValidIso ==
    (norm.returned /\ ~norm.raised) =>
        \A field \in DateFields(norm.cls) \cap DOMAIN norm.output :
            ValidIsoDate(norm.output[field])

(***************************************************************************)
(* Claims about normalize_alias, checked under SpecAlias.                  *)
(***************************************************************************)
\* C13: the aliasId normalize_alias returns is lowercase, has no character
\* outside [a-z0-9 ] and has no two consecutive spaces.
C13_AliasIdIsCanonical ==
    (call.fn = "normalize_alias" /\ call.returned) =>
        LET id == call.result.s
        IN  /\ \A i \in 1..Len(id) : Has(LowerCase, id[i]) \/ IsDigit(id[i]) \/ id[i] = SP
            /\ \A i \in 1..(Len(id) - 1) : ~(id[i] = SP /\ id[i + 1] = SP)

(***************************************************************************)
(* Claims about extract_country_from_location, checked under SpecCountry.  *)
(***************************************************************************)
IsCountryKey(s) == \E e \in get_valid_countries : e.key = s

CanonicalName(s) == (CHOOSE e \in get_valid_countries : e.key = s).name

\* The components of a location that, trimmed and lowercased, are keys of
\* the registry.
KeyComponents(parts) == {i \in 1..Len(parts) : IsCountryKey(lower(strip(parts[i])))}

\* C14: for a location with commas extract_country_from_location returns the
\* canonical name of the right-most component that trimmed and lowercased is
\* a key of the registry; for one without a comma, the canonical name of the
\* whole string trimmed and lowercased if that is a key; otherwise None.
C14_CountryOfLocation ==
    (call.fn = "extract_country_from_location" /\ call.returned) =>
        call.result =
            IF KeyComponents(call.parts) = {} THEN JNull
            ELSE JStr(CanonicalName(lower(strip(call.parts[MaxOf(KeyComponents(call.parts))]))))

\* 'Room 1102, Guanfu Mansion, 46 Xinkai Road, Hedong District, Tianjin, China'
\* gives 'China'.
C14_Witness ==
    /\ call.fn = "extract_country_from_location"
    /\ call.returned
    /\ Len(call.parts) = 6
    /\ call.result = JStr(<<"C", "h", "i", "n", "a">>)

(***************************************************************************)
(* Claims about the address of a normalized record, checked under          *)
(* SpecNorm.                                                               *)
(***************************************************************************)
CanonicalCountryNames == {JStr(e.name) : e \in get_valid_countries}

HasAddress(record) == "address" \in DOMAIN record /\ record["address"].t = "dict"

\* C15: in the record process_individual / process_entity returns, the
\* country of the address, when present, is one of the registry's canonical
\* names; a country that does not resolve is removed from the address.
C15_CountryIsCanonicalOrRemoved ==
    (norm.returned /\ ~norm.raised /\ HasAddress(norm.output)) =>
        LET given == norm.input["address"].d
            stored == norm.output["address"].d
        IN  /\ "country" \in DOMAIN stored => stored["country"] \in CanonicalCountryNames
            /\ ("country" \in DOMAIN given /\ given["country"].t = "str"
                    /\ extract_country_from_location(given["country"].s) = <<>>)
                  => "country" \notin DOMAIN stored

\* 'Atlantis' is removed and the rest of the address is kept.
C15_Witness ==
    /\ norm.returned
    /\ ~norm.raised
    /\ HasAddress(norm.input)
    /\ "country" \in DOMAIN norm.input["address"].d
    /\ norm.input["address"].d["country"] = JStr(<<"A", "t", "l", "a", "n", "t", "i", "s">>)
    /\ HasAddress(norm.output)
    /\ DOMAIN norm.output["address"].d = {"addressId"}

(***************************************************************************)
(* Claims about two calls of the normalizer in one run, checked under      *)
(* SpecAgain.                                                              *)
(***************************************************************************)
HasAddressId(record) == "addressId" \in DOMAIN record["address"].d

\* C16: every address of a normalized record carries an addressId, and two
\* addresses normalized in one run get different addressIds, also when their
\* contents are the same.
C16_AddressIdsAreFresh ==
    /\ (norm.returned /\ ~norm.raised /\ HasAddress(norm.output)) => HasAddressId(norm.output)
    /\ (again.returned /\ ~again.raised /\ HasAddress(again.output)) =>
          /\ HasAddressId(again.output)
          /\ HasAddress(norm.output) =>
                again.output["address"].d["addressId"] # norm.output["address"].d["addressId"]

\* Two records with the same address, each with an addressId of its own.
C16_Witness ==
    /\ again.returned
    /\ again.of = "same contents"
    /\ HasAddress(norm.output) /\ HasAddress(again.output)
    /\ norm.output["address"].d["country"] = again.output["address"].d["country"]
    /\ norm.output["address"].d["addressId"] # again.output["address"].d["addressId"]

\* C17: normalizing a normalized record gives that record again, its
\* address with the addressId, its dates, its country and its aliases
\* included.
C17_NormalizationIsIdempotent ==
    (again.returned /\ again.of = "own output") =>
        ~again.raised /\ again.output = norm.output

(***************************************************************************)
(* Claims about the loader, checked under SpecLoad.                        *)
(***************************************************************************)
\* The record has a sanctionId: the key is there and its value is not one
\* of the placeholders for "no value".
HasSanctionId(record) ==
    "sanctionId" \in DOMAIN record /\ ~is_empty_value(record["sanctionId"])

\* The ledger record the j-th normalized record was made from.
Source(j) == ld.ledger[ld.origin[j]]

\* C18: a record that has a sanctionId keeps it through normalization, and
\* every graph write issued for it (main, aliases, address, relationships)
\* has that sanctionId as its key.
C18_SanctionIdIsTheKey ==
    \A j \in 1..Len(ld.data) :
        HasSanctionId(Source(j)) =>
            /\ Get(ld.data[j], "sanctionId") = Source(j)["sanctionId"]
            /\ j <= Len(ld.writes) =>
                  \A n \in 1..Len(ld.writes[j]) :
                      ld.writes[j][n].sanctionId = Source(j)["sanctionId"]

\* An entity with a sanctionId for which all four writes were issued.
C18_Witness ==
    \E j \in 1..Len(ld.writes) :
        /\ HasSanctionId(Source(j))
        /\ {ld.writes[j][n].query : n \in 1..Len(ld.writes[j])} =
              {QueryOf("entities", part) : part \in {"main", "aliases", "address", "relationships"}}

\* Normalizing the k-th record of the ledger gives a record.
GivesRecord(k) ==
    /\ ~ProcessRecord(ld.cls, ld.ledger[k], uuid4(k)).raised
    /\ ProcessRecord(ld.cls, ld.ledger[k], uuid4(k)).record # EmptyDict

\* C19: when normalizing one record of a ledger raises, that record alone
\* is skipped: every other record is normalized and returned for loading.
C19_MalformedRecordIsSkippedAlone ==
    (ld.pc \in {"loaded", "loop", "done"} /\ ld.readable) =>
        \A k \in 1..Len(ld.ledger) : GivesRecord(k) => k \in Range(ld.origin)

\* C20: a record with a graph write that raised is counted failed, the loop
\* goes on to the next record, and when load_individuals / load_entities
\* returns every record was counted once: loaded + failed = the number of
\* records.
C20_EveryRecordCountedOnce ==
    /\ \A k \in 1..Len(ld.writes) :
          (\E n \in 1..Len(ld.writes[k]) : ld.writes[k][n].raised) => ld.counted[k] = "failed"
    /\ ld.loaded_count = Cardinality({k \in 1..Len(ld.counted) : ld.counted[k] = "loaded"})
    /\ ld.failed_count = Cardinality({k \in 1..Len(ld.counted) : ld.counted[k] = "failed"})
    /\ ld.pc = "done" =>
          /\ Len(ld.counted) = Len(ld.data)
          /\ ld.loaded_count + ld.failed_count = Len(ld.data)

\* A batch of two whose first record had a write that raised and whose
\* second record was loaded.
C20_Witness ==
    /\ ld.pc = "done"
    /\ Len(ld.data) = 2
    /\ \E n \in 1..Len(ld.writes[1]) : ld.writes[1][n].raised
    /\ ld.counted = <<"failed", "loaded">>
    /\ ld.returned = 1

\* The primary write of the k-th record was issued and did not raise.
PrimaryWritten(k) ==
    /\ ld.writes[k] # <<>>
    /\ ld.writes[k][1].query = QueryOf(ld.cls, "main")
    /\ ~ld.writes[k][1].raised

\* C21: the count load_individuals / load_entities hands to load_all_data
\* is the number of records whose primary write succeeded, whatever became
\* of their alias, address and relationship writes.
C21_CountIsPrimaryWrites ==
    ld.pc = "done" =>
        ld.returned = Cardinality({k \in 1..Len(ld.writes) : PrimaryWritten(k)})

(***************************************************************************)
(* Claims about load_all_data, checked under SpecLoadAll.                  *)
(***************************************************************************)
\* A record write was issued in the load in progress.
RecordWriteIssued == \E k \in 1..Len(ld.writes) : ld.writes[k] # <<>>

\* C22: with clear_existing, the Person, Organisation, Address and Alias
\* nodes of earlier runs are all deleted before the first record write, so
\* no node of those classes seen during or after the load is an old one.
C22_ClearedBeforeFirstWrite ==
    (db.clear_existing /\ (RecordWriteIssued \/ db.pc = "done")) =>
        db.old \cap SanctionsLabels = {}

(***************************************************************************)
(* Claims about is_empty_value, checked under SpecEmpty.                   *)
(***************************************************************************)
\* The five strings the specification lists.
ListedEmptyStrings ==
    {<<>>, <<"n", "/", "a">>, <<"n", "a">>, <<"n", "o", "n", "e">>,
     <<"u", "n", "d", "e", "f", "i", "n", "e", "d">>}

\* Null, or a string that trimmed and lowercased is one of the five.
ListedEmpty(v) ==
    \/ v.t = "null"
    \/ v.t = "str" /\ lower(strip(v.s)) \in ListedEmptyStrings

\* C23: is_empty_value is true of a scalar exactly when it is null or a
\* string that trimmed and lowercased is '', 'n/a', 'na', 'none' or
\* 'undefined'; filter_empty_values keeps every other scalar as it is.
C23_EmptyScalars ==
    call.returned =>
        /\ call.fn = "is_empty_value" => (call.result.b <=> ListedEmpty(call.arg))
        /\ call.fn = "filter_empty_values" =>
              IF ListedEmpty(call.arg) THEN call.result.d = EmptyDict
              ELSE call.result.d = ("value" :> call.arg)

(***************************************************************************)
(* Claims about accented letters in aliases, checked under SpecAlias.      *)
(***************************************************************************)
\* The letters and digits of a string, in order.
LettersAndDigits(s) == SelectSeq(s, LAMBDA ch : Has(LowerCase, ch) \/ IsDigit(ch))

HasAccentedLetter(s) == \E k \in 1..Len(s) : Has(Accented, lower(s)[k])

\* C24: an accented letter of the fixed table appears in aliasId as its
\* unaccented equivalent, at its place among the letters and digits of the
\* alias ('José' gives 'jose').
C24_AccentsAreReplaced ==
    (call.returned /\ call.fn = "normalize_alias" /\ HasAccentedLetter(call.arg)) =>
        LettersAndDigits(call.result.s) = LettersAndDigits(replace_accents(lower(call.arg)))

(***************************************************************************)
(* Claims about the end of the INDIVIDUALS section, checked under          *)
(* SpecSplit.                                                              *)
(***************************************************************************)
\* The position where the INDIVIDUALS section ends: the first ENTITIES
\* header after the INDIVIDUALS header, or the end of the document.
SectionEnd(text) ==
    IF EntitiesHeadersAfter("individuals", text) = {} THEN Len(text) + 1
    ELSE MinOf(EntitiesHeadersAfter("individuals", text))

\* The document from just after the word INDIVIDUALS of the header up to
\* the section's end.
SectionBody(text) ==
    SubSeq(text, FirstHeader("INDIVIDUALS", text) + 1, SectionEnd(text) - 1)

RECURSIVE IsSubsequence(_, _)
\* The tokens of part occur in whole, in that order.
IsSubsequence(part, whole) ==
    IF part = <<>> THEN TRUE
    ELSE IF whole = <<>> THEN FALSE
    ELSE IF Head(part) = Head(whole) THEN IsSubsequence(Tail(part), Tail(whole))
    ELSE IsSubsequence(part, Tail(whole))

\* C25: with an ENTITIES header after the INDIVIDUALS header, no chunk of
\* split_individuals_text holds text from that header on; without one the
\* section body runs to the end of the document. Either way the chunks are
\* those of the body between the header and the section's end.
C25_SectionEndsAtEntities ==
    (/\ txt.returned
     /\ txt.cls = "individuals"
     /\ HasHeader("INDIVIDUALS", txt.text)) =>
        /\ txt.chunks = SplitSection(SectionBody(txt.text), Anchor("individuals"))
        /\ \A k \in 1..Len(txt.chunks) : IsSubsequence(txt.chunks[k], SectionBody(txt.text))

\* A record followed by an ENTITIES section: the chunk ends before it.
C25_Witness ==
    /\ txt.returned
    /\ txt.cls = "individuals"
    /\ txt.text = <<"INDIVIDUALS", NL, Anchor("individuals"), NL, "ENTITIES", NL>>
    /\ txt.chunks = <<<<Anchor("individuals")>>>>

(***************************************************************************)
(* Claims about malformed field values, checked under SpecMalformed.       *)
(***************************************************************************)
\* C26: process_individual / process_entity do not raise for a field value
\* of the wrong type inside a mapping: a record is returned, with the
\* field dropped or substituted.
C26_NeverRaisesOnMalformedField ==
    norm.returned => ~norm.raised

(***************************************************************************)
(* Claims about the order of a record's graph writes, checked under        *)
(* SpecLoad.                                                               *)
(***************************************************************************)
\* The place of a query in the fixed order: primary node, aliases, address,
\* subsidiary and related-entity links.
Rank(query) ==
    CASE query \in {"load_individuals", "load_entities"} -> 1
      [] query \in {"load_individuals_aliases", "load_entities_aliases"} -> 2
      [] query \in {"load_individuals_address", "load_entities_address"} -> 3
      [] query = "load_entities_relationships" -> 4

\* What the k-th record must have for a write of that rank.
HasDataFor(k, rank) ==
    CASE rank = 1 -> TRUE
      [] rank = 2 -> Truthy(Get(ld.data[k], "processed_aliases"))
      [] rank = 3 -> Truthy(Get(ld.data[k], "address"))
      [] rank = 4 -> /\ ld.cls = "entities"
                     /\ \/ Truthy(Get(ld.data[k], "subsidiaries"))
                        \/ Truthy(Get(ld.data[k], "relatedEntities"))

\* C27: a record's writes are issued in the order primary node, aliases,
\* address, links, each secondary write only for a record that has the
\* data; no secondary write comes before the primary write and no write
\* comes after one that raised.
C27_WritesInFixedOrder ==
    \A k \in 1..Len(ld.writes) :
        LET w == ld.writes[k]
        IN  /\ \A n \in 1..Len(w) : HasDataFor(k, Rank(w[n].query))
            /\ \A m, n \in 1..Len(w) : m < n => Rank(w[m].query) < Rank(w[n].query)
            /\ \A n \in 1..Len(w) : w[n].raised => n = Len(w)

\* An entity with aliases, an address and subsidiaries whose alias write
\* raised: the primary and the alias write, and nothing after them.
C27_Witness ==
    /\ ld.cls = "entities"
    /\ Len(ld.writes) >= 1
    /\ HasDataFor(1, 3) /\ HasDataFor(1, 4)
    /\ Len(ld.writes[1]) = 2
    /\ ld.writes[1][1].query = "load_entities" /\ ~ld.writes[1][1].raised
    /\ ld.writes[1][2].query = "load_entities_aliases" /\ ld.writes[1][2].raised


(***************************************************************************)
(* Claims about the metrics of the extractor, checked under SpecExtract.   *)
(***************************************************************************)
\* The chunks of class c all of whose records were appended to the ledger.
FullyPersisted(c) == {k \in 1..Len(outcomes[c]) : outcomes[c][k].status = "ok"}

\* C28: at the end of extract_individuals / extract_entities the reported
\* successful count plus the reported failed count is the number of chunks
\* attempted, and the successful count is the number of chunks all of whose
\* records were appended to the ledger, whether a chunk failed in the LLM
\* call or in a ledger append.
C28_CountsPartitionTheChunks ==
    \A c \in Classes :
        BatchFinished(c) =>
            /\ report[c].successful + report[c].failed = Len(outcomes[c])
            /\ report[c].successful = Cardinality(FullyPersisted(c))


(***************************************************************************)
(* Claims about a FileManager that was never initialized, checked under    *)
(* Spec.                                                                   *)
(***************************************************************************)
\* initialize_output_files has not been called on the FileManager: the only
\* assignment of files_initialized and of the two paths is in that method.
NeverInitialized == ~fm.files_initialized

SaveReturned == last.op \in {"save_record", "save_skipped"}

\* C29: on a FileManager on which initialize_output_files has never been
\* called, save_individual_record / save_entity_record return without an
\* error and leave both ledger files as they were, and
\* get_existing_record_counts gives 0 for both classes whatever the ledger
\* files hold.
C29_UninitializedManagerDoesNothing ==
    NeverInitialized =>
        /\ get_existing_record_counts(fm, disk) = [c \in Classes |-> 0]
        /\ SaveReturned => (last.op = "save_skipped" /\ ~last.raised /\ disk = pre)

\* A save on a new FileManager over ledgers that an earlier one has filled.
C29_Witness ==
    /\ NeverInitialized
    /\ last.op = "save_skipped"
    /\ \A c \in Classes : disk[c].state = "array" /\ Len(disk[c].data) >= 1


(***************************************************************************)
(* Claims about main, checked under SpecMain.                              *)
(***************************************************************************)
\* main is past its dependency check with a valid stage selection.
StagesChecked == mn.pc \notin {"idle", "start"} /\ mn.stages # <<>>

IssuesOf(m) == {m.dependency_issues[k] : k \in 1..Len(m.dependency_issues)}

=============================================================================
